---- MODULE Spec2Model ----
(***************************************************************************)
(* A model of go-dew/dew: the radix-tree router (tree.go), the handler     *)
(* resolution cache (command.go draft with loadHandlerCache/storeCache),   *)
(* the middleware chain builders exec/chain (mux.go) and the               *)
(* Dispatch / Query / QueryAsync engine (dew.go).                          *)
(*                                                                         *)
(* Strings are sequences of bytes (small naturals); pointers to nodes are  *)
(* indices into the sequence `nodes` (index 1 is the root, 0 is nil).      *)
(***************************************************************************)
EXTENDS Naturals, Sequences, FiniteSets, TLC

(* ----------------------------- bounds ---------------------------------- *)

\* Number of insert calls explored on the router in SpecTree.
MaxInserts == 3

\* Number of middleware links registered in all (Use, UseDispatch, UseQuery).
MaxLinks == 2

\* Largest batch handed to DispatchMulti / QueryAsync.
MaxBatch == 2

(* --------------------------- program constants ------------------------- *)

OpAction == 1
OpQuery == 2
OpAll == 3

Nil == 0

\* middlewareType
mCmd == 0
mDispatch == 1
mQuery == 2

OpTypes == {OpAction, OpQuery}

\* The TypeKeys tried on the router: "a", "b", "aa", "ab", "aba", "abb"
\* (1 stands for the byte 'a', 2 for 'b').  They include a key that is a
\* strict prefix of another, keys that force a split and a key below a split.
Keys == { <<1>>, <<2>>, <<1, 1>>, <<1, 2>>, <<1, 2, 1>>, <<1, 2, 2>> }

\* The command types of the engine: "aa" implements Action (it has Validate),
\* "ab" does not and is a query type.
ActionKeys == { <<1, 1>> }

QueryKeys == { <<1, 2>> }

TypeKeys == ActionKeys \cup QueryKeys

\* A second action type, "b", for the scenarios with several scopes.
MoreActionKeys == { <<2>> }

AllActionKeys == ActionKeys \cup MoreActionKeys

AllTypeKeys == TypeKeys \cup MoreActionKeys

\* The muxes of the scenarios with scopes: the root and two made by Group.
ScopeIds == {1, 2, 3}

\* Which scope registers the handler of which action type in those scenarios:
\* "a" in the first child, "b" in the root or in the second child.
ScopeRegs == { <<1, <<2>>>>, <<2, <<1, 1>>>>, <<3, <<2>>>> }

\* The batches dispatched in those scenarios: one action, or one of each type.
ScopeBatches == { <<<<1, 1>>>>, <<<<2>>>>, <<<<1, 1>>, <<2>>>>, <<<<2>>, <<1, 1>>>> }

VARIABLES
    nodes,       \* the router: a heap of node structs, nodes[1] is the root
    regs,        \* history: the (op, key, h) of every insert call that returned
    attempts,    \* history: the (op, key, h) of every insert call whose key no earlier call used
    lastInsert,  \* history: the last insert call and how it ended
    nInserts,    \* number of insert calls made so far
    muxes,       \* the heap of Mux structs, muxes[1] is the one New() returned
    handlers,    \* the heap of handler structs: handlers[h] = [mux, key, op]
    cache,       \* the handler resolution cache shared by all muxes: key -> handler or Nil
    nLinks,      \* number of middleware functions registered so far
    ctxs,        \* the BusContext structs the pool has handed out
    th,          \* the goroutines: th[0] is the caller, th[1..] the fan-out branches
    call,        \* the external call in progress, or the last one and its result
    errs,        \* QueryAsync's buffered error channel
    wg,          \* QueryAsync's WaitGroup counter
    held         \* the BusContexts taken from the pool and not yet put back

treeVars == <<nodes, regs, attempts, lastInsert, nInserts>>

engineVars == <<muxes, handlers, cache, nLinks, ctxs, th, call, errs, wg, held>>

vars == <<nodes, regs, attempts, lastInsert, nInserts,
          muxes, handlers, cache, nLinks, ctxs, th, call, errs, wg, held>>

(* ------------------------------ tree.go -------------------------------- *)

\* node{} / &node{label: l, prefix: p}: a node with no handler and no children.
node(l, p) ==
    [prefix |-> p, label |-> l, handler |-> [handler |-> Nil, op |-> 0], children |-> <<>>]

\* longestPrefixLen finds the length of the shared prefix of two strings.
RECURSIVE longestPrefixFrom(_, _, _, _)
longestPrefixFrom(k1, k2, i, maxL) ==
    IF i < maxL /\ k1[i + 1] = k2[i + 1]
    THEN longestPrefixFrom(k1, k2, i + 1, maxL)
    ELSE i

longestPrefixLen(k1, k2) ==
    LET maxL == IF Len(k2) < Len(k1) THEN Len(k2) ELSE Len(k1)
    IN  longestPrefixFrom(k1, k2, 0, maxL)

\* strings.HasPrefix(s, p)
HasPrefix(s, p) ==
    Len(p) <= Len(s) /\ SubSeq(s, 1, Len(p)) = p

\* s[n:]
Tail_(s, n) == SubSeq(s, n + 1, Len(s))

\* handlerEntry.isEmpty / node.isLeaf
isEmpty(he) == he.handler = Nil

isLeaf(ns, n) == ~isEmpty(ns[n].handler)

\* handlerEntry.insert without its nil check: a second handler silently
\* replaces the first.
setHandlerOverwrite(ns, n, op, h) ==
    [nodes   |-> [ns EXCEPT ![n].handler = [handler |-> h, op |-> op]],
     outcome |-> "ok", node |-> n]

\* handlerEntry.insert through node.setHandler: panics when the entry already
\* carries a handler, whatever its op.
setHandler(ns, n, op, h) ==
    IF ns[n].handler.handler # Nil
    THEN [nodes |-> ns, outcome |-> "panic_duplicate", node |-> Nil]
    ELSE [nodes   |-> [ns EXCEPT ![n].handler = [handler |-> h, op |-> op]],
          outcome |-> "ok", node |-> n]

\* node.getEdge: linear scan of the children for the label.
RECURSIVE getEdgeFrom(_, _, _, _)
getEdgeFrom(ns, nds, label, i) ==
    IF i > Len(nds) THEN Nil
    ELSE IF ns[nds[i]].label = label THEN nds[i]
    ELSE getEdgeFrom(ns, nds, label, i + 1)

getEdge(ns, n, label) == getEdgeFrom(ns, ns[n].children, label, 1)

\* nodes.Sort: sort.Sort by label (insertion of each element in label order).
RECURSIVE sortInsert(_, _, _)
sortInsert(ns, sorted, c) ==
    IF sorted = <<>> THEN <<c>>
    ELSE IF ns[c].label < ns[Head(sorted)].label THEN <<c>> \o sorted
    ELSE <<Head(sorted)>> \o sortInsert(ns, Tail(sorted), c)

RECURSIVE Sort(_, _)
Sort(ns, nds) ==
    IF nds = <<>> THEN <<>>
    ELSE sortInsert(ns, Sort(ns, SubSeq(nds, 1, Len(nds) - 1)), nds[Len(nds)])

\* A wrong addChild, for comparison: the child is appended and the list is
\* left as it is.
addChildAppend(ns, n, child) ==
    [ns EXCEPT ![n].children = Append(ns[n].children, child)]

\* node.addChild: append the child and re-sort.
addChild(ns, n, child) ==
    [ns EXCEPT ![n].children = Sort(ns, Append(ns[n].children, child))]

\* node.replaceChild: put child in the slot of the child with that label and
\* give it the label; 0 when there is no such slot (the code panics).
RECURSIVE replaceSlot(_, _, _, _)
replaceSlot(ns, nds, label, i) ==
    IF i > Len(nds) THEN 0
    ELSE IF ns[nds[i]].label = label THEN i
    ELSE replaceSlot(ns, nds, label, i + 1)

replaceChild(ns, n, label, child) ==
    LET i == replaceSlot(ns, ns[n].children, label, 1)
    IN  IF i = 0
        THEN [nodes |-> ns, ok |-> FALSE]
        ELSE [nodes |-> [ns EXCEPT ![n].children[i] = child, ![child].label = label],
              ok    |-> TRUE]

\* A wrong findEdge, for comparison: only the middle of the list is looked at.
findEdgeMiddle(ns, nds, label) ==
    IF Len(nds) = 0 THEN Nil
    ELSE LET idx == (Len(nds) - 1) \div 2
         IN  IF ns[nds[idx + 1]].label # label THEN Nil ELSE nds[idx + 1]

\* nodes.findEdge: binary search of the sorted children (0-based i, j, idx).
RECURSIVE findEdgeLoop(_, _, _, _, _, _)
findEdgeLoop(ns, nds, label, i, j, idx) ==
    IF i <= j
    THEN LET mid == i + ((j - i) \div 2)
         IN  IF label > ns[nds[mid + 1]].label
             THEN findEdgeLoop(ns, nds, label, mid + 1, j, mid)
             ELSE IF label < ns[nds[mid + 1]].label
             THEN IF mid = 0 THEN mid   \* j = -1 ends the loop
                  ELSE findEdgeLoop(ns, nds, label, i, mid - 1, mid)
             ELSE mid                    \* i = num ends the loop
    ELSE idx

findEdge(ns, nds, label) ==
    IF Len(nds) = 0 THEN Nil
    ELSE LET idx == findEdgeLoop(ns, nds, label, 0, Len(nds) - 1, 0)
         IN  IF ns[nds[idx + 1]].label # label THEN Nil ELSE nds[idx + 1]

\* The split branch of node.insert (tree.go 83-104): n is the matched child
\* of parent, c the common prefix length, c < len(n.prefix).
splitNode(ns, parent, n, search, c, op, h) ==
    LET child == Len(ns) + 1
        ns1   == Append(ns, node(0, SubSeq(search, 1, c)))
        rep   == replaceChild(ns1, parent, search[1], child)
        ns2   == rep.nodes
        ns3   == [ns2 EXCEPT ![n].label = ns[n].prefix[c + 1],
                             ![n].prefix = Tail_(ns[n].prefix, c)]
        ns4   == addChild(ns3, child, n)
        rest  == Tail_(search, c)
        sub   == Len(ns4) + 1
        ns5   == Append(ns4, node(rest[1], rest))
        ns6   == addChild(ns5, child, sub)
    IN  IF ~rep.ok THEN [nodes |-> ns1, outcome |-> "panic_missing_child", node |-> Nil]
        ELSE IF Len(rest) = 0
        \* search[0] of the empty string: index out of range, after the split
        \* has already been written to the tree
        THEN [nodes |-> ns4, outcome |-> "panic_index", node |-> Nil]
        ELSE setHandler(ns6, sub, op, h)

\* node.insert: the loop from node n with the unconsumed key `search`.
RECURSIVE insertLoop(_, _, _, _, _)
insertLoop(ns, n, search, op, h) ==
    IF Len(search) = 0 THEN setHandler(ns, n, op, h)
    ELSE LET label  == search[1]
             parent == n
             e      == getEdge(ns, parent, label)
         IN  IF e = Nil
             THEN LET hn == Len(ns) + 1
                  IN  setHandler(addChild(Append(ns, node(label, search)), parent, hn),
                                 hn, op, h)
             ELSE LET c == longestPrefixLen(search, ns[e].prefix)
                  IN  IF c = Len(ns[e].prefix)
                      THEN insertLoop(ns, e, Tail_(search, c), op, h)
                      ELSE splitNode(ns, parent, e, search, c, op, h)

insert(ns, op, key, h) == insertLoop(ns, 1, key, op, h)

\* node.findRoute, with the op comparison dropped: what a router that is
\* not strict about the operation kind would do.
RECURSIVE findRouteAnyOp(_, _, _, _)
findRouteAnyOp(ns, n, op, key) ==
    LET label == IF key # <<>> THEN key[1] ELSE 0
        xn    == findEdge(ns, ns[n].children, label)
    IN  IF xn = Nil THEN Nil
        ELSE IF ~HasPrefix(key, ns[xn].prefix) THEN Nil
        ELSE LET xsearch == Tail_(key, Len(ns[xn].prefix))
             IN  IF Len(xsearch) = 0 /\ isLeaf(ns, xn) /\ ns[xn].handler.handler # Nil
                 THEN xn
                 ELSE findRouteAnyOp(ns, xn, op, xsearch)

\* A wrong findRoute, for comparison: the deepest handler on the way down
\* is a match, whether or not the key is used up there.
RECURSIVE findRouteLongest(_, _, _, _)
findRouteLongest(ns, n, op, key) ==
    LET label == IF key # <<>> THEN key[1] ELSE 0
        xn    == findEdge(ns, ns[n].children, label)
    IN  IF xn = Nil THEN Nil
        ELSE IF longestPrefixLen(key, ns[xn].prefix) < Len(ns[xn].prefix) THEN Nil
        ELSE LET xsearch == Tail_(key, Len(ns[xn].prefix))
                 deeper  == findRouteLongest(ns, xn, op, xsearch)
             IN  IF deeper # Nil THEN deeper
                 ELSE IF isLeaf(ns, xn) /\ ns[xn].handler.op = op THEN xn
                 ELSE Nil

\* node.findRoute
RECURSIVE findRoute(_, _, _, _)
findRoute(ns, n, op, key) ==
    LET label == IF key # <<>> THEN key[1] ELSE 0
        xn    == findEdge(ns, ns[n].children, label)
    IN  IF xn = Nil THEN Nil
        ELSE IF ~HasPrefix(key, ns[xn].prefix) THEN Nil
        ELSE LET xsearch == Tail_(key, Len(ns[xn].prefix))
             IN  IF Len(xsearch) = 0 /\ isLeaf(ns, xn)
                    /\ ns[xn].handler.handler # Nil /\ ns[xn].handler.op = op
                 THEN xn
                 ELSE findRoute(ns, xn, op, xsearch)

\* The handler findRoute yields from the root, Nil for not-found.
routeHandler(ns, op, key) ==
    LET n == findRoute(ns, 1, op, key)
    IN  IF n = Nil THEN Nil ELSE ns[n].handler.handler


(* ------------------------------- errors -------------------------------- *)

NoErr == [kind |-> "nil"]

\* errors.New("bus not found in context")
ErrBusNotFound == [kind |-> "bus not found in context"]

\* "handler not found for <key>"
ErrHandlerNotFound(key) == [kind |-> "handler not found", key |-> key]

ErrValidationFailed == [kind |-> "validation failed"]

\* What Validate returns for the i-th action of the batch when it rejects it.
ValidateErr(i) == [kind |-> "validate", i |-> i]

\* What the handler returns for the i-th command of the batch when it fails.
HandlerErr(i) == [kind |-> "handler", i |-> i]

\* What middleware fn returns when it returns without calling next.
LinkErr(fn) == [kind |-> "link", fn |-> fn]

\* A wrong wrap, for comparison: fmt.Errorf("%w: %v", a, b), which keeps b's
\* text only.
ErrorfText(a, b) == [kind |-> "wrap", errs |-> <<a>>]

\* fmt.Errorf("%w: %w", a, b)
Errorf2(a, b) == [kind |-> "wrap", errs |-> <<a, b>>]

\* errors.Join(a, b) of two non-nil errors
Join(a, b) == [kind |-> "join", errs |-> <<a, b>>]

\* errors.Is(err, target): err itself, or anything it wraps or joins.
RECURSIVE Is(_, _)
Is(err, target) ==
    \/ err = target
    \/ /\ err.kind \in {"wrap", "join"}
       /\ \E i \in 1..Len(err.errs) : Is(err.errs[i], target)

(* ------------------------- mux.go: chain builders ---------------------- *)

\* A nil Middleware / nil func.
NilMw == [t |-> "nil"]

\* mw.fn(next): the Middleware a middleware function returns around next.
applyFn(mw, next) == [t |-> "link", fn |-> mw.fn, next |-> next]

\* A MiddlewareFunc closure of the engine; q is the query it closes over.
Func(name, q) == [t |-> "func", name |-> name, q |-> q]

\* a & b on OpType
AndOp(a, b) == ((a % 2) * (b % 2)) + 2 * ((a \div 2) * (b \div 2))

\* A wrong exec, for comparison: the list is taken last link first.
execLastFirst(middlewares, command) ==
    IF Len(middlewares) = 0 THEN command
    ELSE [t |-> "exec",
          middlewares |-> [i \in 1..Len(middlewares) |-> middlewares[Len(middlewares) + 1 - i]],
          command |-> command]

\* exec: the cursor-driven per-call chain.
exec(middlewares, command) ==
    IF Len(middlewares) = 0 THEN command
    ELSE [t |-> "exec", middlewares |-> middlewares, command |-> command]

\* A wrong filter, for comparison: every link is kept.
filterMiddlewareAll(op, middlewares) == middlewares

\* filterMiddleware
filterMiddleware(op, middlewares) ==
    SelectSeq(middlewares, LAMBDA mw : AndOp(mw.op, op) # 0)

\* chain's loop: for i := len(mws) - 2; i >= 0; i-- { h = mws[i].fn(h) }
RECURSIVE chainWrap(_, _, _)
chainWrap(mws, i, h) ==
    IF i < 1 THEN h ELSE chainWrap(mws, i - 1, applyFn(mws[i], h))

\* A wrong chain, for comparison: wrapped first link innermost, so that the
\* link registered last runs outermost.
RECURSIVE wrapUp(_, _, _)
wrapUp(mws, i, h) ==
    IF i > Len(mws) THEN h ELSE wrapUp(mws, i + 1, applyFn(mws[i], h))

chainLastOutermost(op, middlewares, command) ==
    wrapUp(SelectSeq(middlewares, LAMBDA mw : AndOp(mw.op, op) # 0), 1, command)

\* chain: the eagerly wrapped per-command chain.
chain(op, middlewares, command) ==
    LET mws == filterMiddleware(op, middlewares)
    IN  IF Len(mws) = 0 THEN command
        ELSE chainWrap(mws, Len(mws) - 1, applyFn(mws[Len(mws)], command))

(* ------------------------------ mux.go: Mux ---------------------------- *)

\* newMux()
newMux ==
    [parent      |-> Nil,
     middlewares |-> [m \in {mCmd, mDispatch, mQuery} |-> <<>>],
     handler     |-> [o \in OpTypes |-> NilMw],
     mHandlers   |-> [m \in {mDispatch, mQuery} |-> Nil],
     pool        |-> TRUE]

\* A wrong child, for comparison: it starts with empty middleware lists.
childNoCopy(mxs, mx) ==
    [parent      |-> mx,
     middlewares |-> [m \in {mCmd, mDispatch, mQuery} |-> <<>>],
     handler     |-> [o \in OpTypes |-> NilMw],
     mHandlers   |-> [m \in {mDispatch, mQuery} |-> Nil],
     pool        |-> FALSE]

\* mx.child(): a copy of the parent's three middleware lists; no pool is set.
child(mxs, mx) ==
    [parent      |-> mx,
     middlewares |-> [m \in {mCmd, mDispatch, mQuery} |-> mxs[mx].middlewares[m]],
     handler     |-> [o \in OpTypes |-> NilMw],
     mHandlers   |-> [m \in {mDispatch, mQuery} |-> Nil],
     pool        |-> FALSE]

\* A wrong setupHandler, for comparison: the entry points are built anew at
\* every Register.
RECURSIVE setupHandlerRebuild(_, _)
setupHandlerRebuild(mxs, mx) ==
    LET m1 == [mxs EXCEPT ![mx].mHandlers = [m \in {mDispatch, mQuery} |-> nInserts + 1]]
    IN  IF mxs[mx].parent # Nil THEN setupHandlerRebuild(m1, mxs[mx].parent) ELSE m1

\* mx.setupHandler(): build the two per-call entry points where they are
\* nil, here and in every ancestor. An entry point is a closure that reads
\* mx.middlewares[m] when it is called; what the model keeps of it is which
\* Register call built it.
RECURSIVE setupHandler(_, _)
setupHandler(mxs, mx) ==
    LET m1 == [mxs EXCEPT ![mx].mHandlers =
                  [m \in {mDispatch, mQuery} |->
                      IF mxs[mx].mHandlers[m] = Nil THEN nInserts + 1
                      ELSE mxs[mx].mHandlers[m]]]
    IN  IF mxs[mx].parent # Nil THEN setupHandler(m1, mxs[mx].parent) ELSE m1

\* mx.updateRouteHandler(op)
updateRouteHandler(mxs, mx, op) ==
    [mxs EXCEPT ![mx].handler[op] =
        chain(op, mxs[mx].middlewares[mCmd], Func("route", 0))]

\* A wrong dispatch, for comparison: the chain is built anew every time.
dispatchRebuild(mxs, mx, op) ==
    [muxes |-> updateRouteHandler(mxs, mx, op),
     hh    |-> updateRouteHandler(mxs, mx, op)[mx].handler[op]]

\* mx.dispatch(op, ctx, h) up to the call of hh.Handle(ctx): the chain to run
\* and the muxes after a lazy build.
dispatch(mxs, mx, op) ==
    IF mxs[mx].handler[op] = NilMw
    THEN LET m1 == updateRouteHandler(mxs, mx, op)
         IN  [muxes |-> m1, hh |-> m1[mx].handler[op]]
    ELSE [muxes |-> mxs, hh |-> mxs[mx].handler[op]]

(* ------------------- command.go: handler resolution -------------------- *)

\* resolveHandler with loadHandlerCache / storeCache: the cache is keyed by
\* the command type alone.
resolveHandler(cch, ns, op, key) ==
    IF cch[key] # Nil
    THEN [found |-> TRUE, h |-> cch[key], cache |-> cch]
    ELSE LET n == findRoute(ns, 1, op, key)
         IN  IF n # Nil
             THEN [found |-> TRUE, h |-> ns[n].handler.handler,
                   cache |-> [cch EXCEPT ![key] = ns[n].handler.handler]]
             ELSE [found |-> FALSE, h |-> Nil, cache |-> cch]

\* A wrong loop, for comparison: the resolved commands are handed on last
\* one first.
RECURSIVE resolveAllReversed(_, _, _, _, _, _)
resolveAllReversed(cch, ns, op, keys, i, cmds) ==
    IF i > Len(keys) THEN [ok |-> TRUE, cache |-> cch, cmds |-> cmds, err |-> NoErr]
    ELSE LET r == resolveHandler(cch, ns, op, keys[i])
         IN  IF r.found
             THEN resolveAllReversed(r.cache, ns, op, keys, i + 1,
                                     <<[i |-> i, key |-> keys[i], h |-> r.h]>> \o cmds)
             ELSE [ok |-> FALSE, cache |-> r.cache, cmds |-> cmds,
                   err |-> ErrHandlerNotFound(keys[i])]

\* The loop "for _, action := range actions { action.Resolve(bus) }": stops
\* at the first command that does not resolve.
RECURSIVE resolveAll(_, _, _, _, _, _)
resolveAll(cch, ns, op, keys, i, cmds) ==
    IF i > Len(keys) THEN [ok |-> TRUE, cache |-> cch, cmds |-> cmds, err |-> NoErr]
    ELSE LET r == resolveHandler(cch, ns, op, keys[i])
         IN  IF r.found
             THEN resolveAll(r.cache, ns, op, keys, i + 1,
                             Append(cmds, [i |-> i, key |-> keys[i], h |-> r.h]))
             ELSE [ok |-> FALSE, cache |-> r.cache, cmds |-> cmds,
                   err |-> ErrHandlerNotFound(keys[i])]

(* ----------------------------- BusContext ------------------------------ *)

\* A nil context.Context / a nil internalHandler.
NilCtx == [set |-> FALSE, bus |-> Nil, vals |-> {}]

NilCmd == [i |-> 0, key |-> <<>>, h |-> Nil]

\* NewContext()
NewContext == [ctx |-> NilCtx, mwsIdx |-> 0, handler |-> NilCmd]

\* A wrong Reset, for comparison: the cursor survives.
ResetKeepCursor(c) == [c EXCEPT !.ctx = NilCtx, !.handler = NilCmd]

\* A wrong Reset, for comparison: the command reference survives.
ResetKeepCommand(c) == [c EXCEPT !.ctx = NilCtx, !.mwsIdx = 0]

\* c.Reset()
Reset(c) == [c EXCEPT !.ctx = NilCtx, !.mwsIdx = 0, !.handler = NilCmd]

\* A wrong Copy, for comparison: the cursor is not copied.
CopyNoCursor(c, a) == [c EXCEPT !.ctx = a.ctx, !.handler = a.handler]

\* c.Copy(a)
Copy(c, a) == [c EXCEPT !.ctx = a.ctx, !.mwsIdx = a.mwsIdx, !.handler = a.handler]

\* context.WithValue(ctx, busKey{}, mux)
WithBus(mx) == [set |-> TRUE, bus |-> mx, vals |-> {}]

\* c.WithValue(key, val): c.ctx = context.WithValue(c.ctx, key, val) and c
\* itself is returned. vals is what ctx.Value finds: per key the value
\* attached last.
WithValue(c, key, val) ==
    [c EXCEPT !.ctx.vals = {p \in @ : p[1] # key} \cup {<<key, val>>}]

\* The BusContexts that can be out of the pool at once: the call's and one
\* per fan-out branch.
CtxIds == 1..(MaxBatch + 1)

\* A wrong pool, for comparison: Get hands out the same BusContext whether or
\* not somebody holds it.
poolGetSame(hd) == CHOOSE c \in CtxIds : \A d \in CtxIds : c <= d

\* mux.pool.Get(): a BusContext nobody holds (sync.Pool hands out a pooled one
\* or a new one; the slots are numbered from the lowest free one).
poolGet(hd) == CHOOSE c \in CtxIds : c \notin hd /\ \A d \in CtxIds : d < c => d \in hd


(* --------------------------- goroutines, calls ------------------------- *)

\* Goroutine 0 is the caller's; 1..MaxBatch are the fan-out branches.
Threads == 0..MaxBatch

\* Where a goroutine is: about to call mw.Handle(ctx_c) / returning err to the
\* frame on top of its stack.
Handle(mw, c) == [k |-> "handle", mw |-> mw, c |-> c]

Ret(err) == [k |-> "ret", err |-> err]

IdleThread == [ctl |-> [k |-> "idle"], stack |-> <<>>, log |-> <<>>]

\* What user code (middleware, Validate, handlers) records when it runs; cmd
\* is the command ctx.Command() shows at that moment (0: none).
Event(e, id, cmd) == [e |-> e, id |-> id, cmd |-> cmd]

NoCall == [kind |-> "none", status |-> "none", bus |-> Nil, hasBus |-> FALSE,
           keys |-> <<>>, cmds |-> <<>>, result |-> NoErr]

(* ------------------------- the router on its own ----------------------- *)

\* NewMux(): an empty tree, an empty cache, no middleware, a pool; no call
\* has been made and every goroutine slot is idle.
Init ==
    /\ nodes = <<node(0, <<>>)>>
    /\ regs = {}
    /\ attempts = {}
    /\ lastInsert = [op |-> 0, key |-> <<>>, h |-> 0, outcome |-> "none",
                     dup |-> FALSE, fresh |-> FALSE]
    /\ nInserts = 0
    /\ muxes = <<newMux>>
    /\ handlers = {}
    /\ cache = [k \in AllTypeKeys |-> Nil]
    /\ nLinks = 0
    /\ ctxs = [c \in CtxIds |-> NewContext]
    /\ th = [t \in Threads |-> IdleThread]
    /\ call = NoCall
    /\ errs = <<>>
    /\ wg = 0
    /\ held = {}

TreeInit == Init

\* tr.insert(op, key, &handler{}): a panic leaves what was already written.
TreeInsert(op, key) ==
    /\ nInserts < MaxInserts
    /\ LET h == nInserts + 1
           r == insert(nodes, op, key, h)
       IN  /\ nodes' = r.nodes
           /\ regs' = IF r.outcome = "ok"
                      THEN regs \cup {[op |-> op, key |-> key, h |-> h]}
                      ELSE regs
           /\ attempts' = IF \E a \in attempts : a.key = key
                          THEN attempts
                          ELSE attempts \cup {[op |-> op, key |-> key, h |-> h]}
           /\ lastInsert' = [op |-> op, key |-> key, h |-> h, outcome |-> r.outcome,
                             dup |-> \E x \in regs : x.op = op /\ x.key = key,
                             fresh |-> ~\E a \in attempts : a.key = key]
           /\ nInserts' = nInserts + 1
    /\ UNCHANGED engineVars

TreeNext == \E op \in OpTypes, key \in Keys : TreeInsert(op, key)

SpecTree == TreeInit /\ [][TreeNext]_vars

\* Keys over four first bytes and three second bytes below "b", so that
\* children lists of three and more entries come up at the root and at a
\* split node ("a", "b", "c", "d", "ba", "bc", "bd").
EdgeKeys == { <<1>>, <<2>>, <<3>>, <<4>>, <<2, 1>>, <<2, 3>>, <<2, 4>> }

\* The router filled with keys that make wide children lists.
EdgeNext == \E op \in OpTypes, key \in EdgeKeys : TreeInsert(op, key)

SpecEdges == TreeInit /\ [][EdgeNext]_vars

(* ------------------------------- setup --------------------------------- *)

\* Registration comes before the first call (the registration-before-use
\* discipline of the engine), and a panic during registration ends the
\* program.
InSetup == call.status = "none"

\* A wrong Use, for comparison: the children of mx share its list, so the
\* link reaches them too.
UseShared(mx, op) ==
    /\ InSetup
    /\ nLinks < MaxLinks
    /\ nLinks' = nLinks + 1
    /\ muxes' = [o \in 1..Len(muxes) |->
                   IF o = mx \/ muxes[o].parent = mx
                   THEN [muxes[o] EXCEPT !.middlewares[mCmd] =
                            Append(@, [op |-> op, fn |-> nLinks + 1])]
                   ELSE muxes[o]]
    /\ UNCHANGED <<treeVars, handlers, cache, ctxs, th, call, errs, wg, held>>

\* mx.Use(op, fn): one link appended to the command-middleware list.
Use(mx, op) ==
    /\ InSetup
    /\ nLinks < MaxLinks
    /\ nLinks' = nLinks + 1
    /\ muxes' = [muxes EXCEPT ![mx].middlewares[mCmd] =
                    Append(@, [op |-> op, fn |-> nLinks + 1])]
    /\ UNCHANGED <<treeVars, handlers, cache, ctxs, th, call, errs, wg, held>>

\* mx.addMiddleware(m, fn): the link carries no operation kind.
addMiddleware(mx, m) ==
    /\ InSetup
    /\ nLinks < MaxLinks
    /\ nLinks' = nLinks + 1
    /\ muxes' = [muxes EXCEPT ![mx].middlewares[m] =
                    Append(@, [op |-> 0, fn |-> nLinks + 1])]
    /\ UNCHANGED <<treeVars, handlers, cache, ctxs, th, call, errs, wg, held>>

UseDispatch(mx) == addMiddleware(mx, mDispatch)

UseQuery(mx) == addMiddleware(mx, mQuery)

\* mx.Use(op, fn) between two calls, when chains may have been built already.
UseAfter(mx, op) ==
    /\ call.status = "returned"
    /\ nLinks < MaxLinks
    /\ nLinks' = nLinks + 1
    /\ muxes' = [muxes EXCEPT ![mx].middlewares[mCmd] =
                    Append(@, [op |-> op, fn |-> nLinks + 1])]
    /\ UNCHANGED <<treeVars, handlers, cache, ctxs, th, call, errs, wg, held>>

\* mx.addMiddleware(m, fn) between two calls, when the entry points have been
\* built and used.
addMiddlewareAfter(mx, m) ==
    /\ call.status = "returned"
    /\ nLinks < MaxLinks
    /\ nLinks' = nLinks + 1
    /\ muxes' = [muxes EXCEPT ![mx].middlewares[m] =
                    Append(@, [op |-> 0, fn |-> nLinks + 1])]
    /\ UNCHANGED <<treeVars, handlers, cache, ctxs, th, call, errs, wg, held>>

UseDispatchAfter(mx) == addMiddlewareAfter(mx, mDispatch)

UseQueryAfter(mx) == addMiddlewareAfter(mx, mQuery)

\* mx.Group(fn): a child mux is made; what fn does to it are the setup
\* actions on the child that follow.
Group(mx) ==
    /\ InSetup
    /\ Len(muxes) < Cardinality(ScopeIds)
    /\ muxes' = Append(muxes, child(muxes, mx))
    /\ UNCHANGED <<treeVars, handlers, cache, nLinks, ctxs, th, call, errs, wg, held>>

\* The kind Register derives from the command type: ACTION when the type
\* implements Action, QUERY otherwise.
kindOf(key) == IF key \in AllActionKeys THEN OpAction ELSE OpQuery

\* mx.Register(handler) for a handler object with one method, for the command
\* type of key: addHandler (tree insert), then setupHandler. A panic of the
\* insert leaves what it had written and skips setupHandler.
Register(mx, key) ==
    /\ InSetup
    /\ LET h == nInserts + 1
           op == kindOf(key)
           r == insert(nodes, op, key, h)
       IN  /\ nodes' = r.nodes
           /\ regs' = IF r.outcome = "ok"
                      THEN regs \cup {[op |-> op, key |-> key, h |-> h]}
                      ELSE regs
           /\ attempts' = IF \E a \in attempts : a.key = key
                          THEN attempts
                          ELSE attempts \cup {[op |-> op, key |-> key, h |-> h]}
           /\ lastInsert' = [op |-> op, key |-> key, h |-> h, outcome |-> r.outcome,
                             dup |-> \E x \in regs : x.op = op /\ x.key = key,
                             fresh |-> ~\E a \in attempts : a.key = key,
                             mux |-> mx]
           /\ nInserts' = nInserts + 1
           /\ handlers' = IF r.outcome = "ok"
                          THEN handlers \cup {[h |-> h, mux |-> mx, key |-> key, op |-> op]}
                          ELSE handlers
           /\ muxes' = IF r.outcome = "ok" THEN setupHandler(muxes, mx) ELSE muxes
           /\ call' = IF r.outcome = "ok" THEN call ELSE [call EXCEPT !.status = "crashed"]
    /\ UNCHANGED <<cache, nLinks, ctxs, th, errs, wg, held>>

(* ------------------------- dew.go: call entry -------------------------- *)

\* The batches a caller can hand over.
RECURSIVE SeqsUpTo(_, _)
SeqsUpTo(S, n) ==
    IF n = 0 THEN {<<>>}
    ELSE LET shorter == SeqsUpTo(S, n - 1)
         IN  shorter \cup {Append(q, x) : q \in {z \in shorter : Len(z) = n - 1}, x \in S}

\* A call can start when none is running.
CanCall == call.status \in {"none", "returned"}

\* A wrong owner, for comparison: the scope bound in the caller's context.
muxOfCaller(h) == call.bus

\* The mux that owns handler h.
muxOf(h) == (CHOOSE x \in handlers : x.h = h).mux

\* A wrong entry, for comparison: the bus is looked up before the batch is
\* found empty.
EnterBusFirst(kind, op, m, fname, keys, hasBus, emptyOk) ==
    LET r == resolveAll(cache, nodes, op, keys, 1, <<>>)
        c == poolGet(held)
        base == [kind |-> kind, status |-> "returned", bus |-> 1, hasBus |-> hasBus,
                 keys |-> keys, cmds |-> <<>>, result |-> NoErr]
        quiet == [t \in Threads |-> IdleThread]
    IN  /\ CanCall
        /\ errs' = <<>>
        /\ wg' = 0
        /\ UNCHANGED <<treeVars, handlers, nLinks, muxes>>
        /\ IF ~hasBus
           THEN /\ call' = [base EXCEPT !.result = ErrBusNotFound]
                /\ th' = quiet
                /\ UNCHANGED <<cache, ctxs, held>>
           ELSE IF emptyOk /\ Len(keys) = 0
           THEN /\ call' = base
                /\ th' = quiet
                /\ UNCHANGED <<cache, ctxs, held>>
           ELSE IF ~r.ok
           THEN /\ call' = [base EXCEPT !.result = r.err]
                /\ cache' = r.cache
                /\ th' = quiet
                /\ UNCHANGED <<ctxs, held>>
           ELSE IF ~muxes[1].pool \/ muxes[1].mHandlers[m] = Nil
           THEN /\ call' = [base EXCEPT !.status = "panic", !.cmds = r.cmds]
                /\ cache' = r.cache
                /\ th' = quiet
                /\ UNCHANGED <<ctxs, held>>
           ELSE /\ call' = [base EXCEPT !.status = "running", !.cmds = r.cmds]
                /\ cache' = r.cache
                /\ held' = held \cup {c}
                /\ ctxs' = [ctxs EXCEPT ![c] = [Reset(@) EXCEPT !.ctx = WithBus(1)]]
                /\ th' = [quiet EXCEPT ![0] =
                            [ctl |-> Handle(exec(muxes[1].middlewares[m], Func(fname, 1)), c),
                             stack |-> <<[f |-> "api", c |-> c]>>,
                             log |-> <<>>]]

\* A wrong composition, for comparison: the chain is made of the list without
\* the link registered last.
newDispatchHandlerStale(mxs, mx, m, fn) ==
    exec(SubSeq(mxs[mx].middlewares[m], 1, Len(mxs[mx].middlewares[m]) - 1), fn)

\* mx.newDispatchHandler(m, fn), which the entry point mx.mHandlers[m] calls
\* each time it is called: exec over the list mx.middlewares[m] as it is now.
newDispatchHandler(mxs, mx, m, fn) == exec(mxs[mx].middlewares[m], fn)

\* The part of DispatchMulti / Query / QueryAsync before the per-call chain
\* is entered: the empty-batch and bus guards, Resolve of every command, and
\* pool.Get / Reset / binding the caller's context. hasBus says whether the
\* caller's context carries the bus, b which scope that bus is; emptyOk
\* whether an empty batch returns nil at once. A scope made by child() has
\* no pool: pool.Get() on it is a nil pointer dereference.
EnterOn(b, kind, op, m, fname, keys, hasBus, emptyOk) ==
    LET r == resolveAll(cache, nodes, op, keys, 1, <<>>)
        c == poolGet(held)
        base == [kind |-> kind, status |-> "returned", bus |-> b, hasBus |-> hasBus,
                 keys |-> keys, cmds |-> <<>>, result |-> NoErr]
        quiet == [t \in Threads |-> IdleThread]
    IN  /\ CanCall
        /\ errs' = <<>>
        /\ wg' = 0
        /\ UNCHANGED <<treeVars, handlers, nLinks, muxes>>
        /\ IF emptyOk /\ Len(keys) = 0
           THEN /\ call' = base
                /\ th' = quiet
                /\ UNCHANGED <<cache, ctxs, held>>
           ELSE IF ~hasBus
           THEN /\ call' = [base EXCEPT !.result = ErrBusNotFound]
                /\ th' = quiet
                /\ UNCHANGED <<cache, ctxs, held>>
           ELSE IF ~r.ok
           THEN /\ call' = [base EXCEPT !.result = r.err]
                /\ cache' = r.cache
                /\ th' = quiet
                /\ UNCHANGED <<ctxs, held>>
           ELSE IF ~muxes[b].pool \/ muxes[b].mHandlers[m] = Nil
           THEN /\ call' = [base EXCEPT !.status = "panic", !.cmds = r.cmds]
                /\ cache' = r.cache
                /\ th' = quiet
                /\ UNCHANGED <<ctxs, held>>
           ELSE /\ call' = [base EXCEPT !.status = "running", !.cmds = r.cmds]
                /\ cache' = r.cache
                /\ held' = held \cup {c}
                /\ ctxs' = [ctxs EXCEPT ![c] = [Reset(@) EXCEPT !.ctx = WithBus(b)]]
                /\ th' = [quiet EXCEPT ![0] =
                            [ctl |-> Handle(newDispatchHandler(muxes, b, m, Func(fname, 1)), c),
                             stack |-> <<[f |-> "api", c |-> c]>>,
                             log |-> <<>>]]

\* The entry points called with the root bus in the caller's context, as
\* every call of the tests and examples is.
Enter(kind, op, m, fname, keys, hasBus, emptyOk) ==
    EnterOn(1, kind, op, m, fname, keys, hasBus, emptyOk)

\* DispatchMulti(ctx, actions...)
DispatchMulti(keys, hasBus) ==
    Enter("dispatch", OpAction, mDispatch, "dispatchMulti", keys, hasBus, TRUE)

\* DispatchMulti(ctx, actions...) with ctx = NewContext(parent, b): scope b
\* is the bus the call finds in its context.
DispatchMultiOn(b, keys) ==
    EnterOn(b, "dispatch", OpAction, mDispatch, "dispatchMulti", keys, TRUE, TRUE)

\* Query(ctx, query)
Query(key, hasBus) ==
    Enter("query", OpQuery, mQuery, "query", <<key>>, hasBus, FALSE)

\* QueryAsync(ctx, queries...)
QueryAsync(keys, hasBus) ==
    Enter("queryAsync", OpQuery, mQuery, "queryAsync", keys, hasBus, TRUE)

(* ------------------------ running the chains --------------------------- *)

Running(t) == call.status = "running" /\ th[t].ctl.k = "handle"

Top(t) == th[t].stack[Len(th[t].stack)]

Pop(t) == SubSeq(th[t].stack, 1, Len(th[t].stack) - 1)

\* A wrong exec, for comparison: the cursor is read and never advanced.
StepExecNoAdvance(t) ==
    /\ Running(t)
    /\ th[t].ctl.mw.t = "exec"
    /\ LET c == th[t].ctl.c
           mw == th[t].ctl.mw
           idx == ctxs[c].mwsIdx
       IN  IF idx < Len(mw.middlewares)
           THEN th' = [th EXCEPT ![t].ctl =
                            Handle(applyFn(mw.middlewares[idx + 1],
                                           exec(mw.middlewares, mw.command)), c)]
           ELSE th' = [th EXCEPT ![t].ctl = Handle(mw.command, c)]
    /\ UNCHANGED <<treeVars, muxes, handlers, cache, nLinks, ctxs, call, errs, wg, held>>

\* The Middleware exec returns, called: read the cursor; below the end of the
\* list advance it and call the link at the old cursor around a fresh exec,
\* otherwise call the terminal.
StepExec(t) ==
    /\ Running(t)
    /\ th[t].ctl.mw.t = "exec"
    /\ LET c == th[t].ctl.c
           mw == th[t].ctl.mw
           idx == ctxs[c].mwsIdx
       IN  IF idx < Len(mw.middlewares)
           THEN /\ ctxs' = [ctxs EXCEPT ![c].mwsIdx = idx + 1]
                /\ th' = [th EXCEPT ![t].ctl =
                            Handle(applyFn(mw.middlewares[idx + 1],
                                           exec(mw.middlewares, mw.command)), c)]
           ELSE /\ th' = [th EXCEPT ![t].ctl = Handle(mw.command, c)]
                /\ UNCHANGED ctxs
    /\ UNCHANGED <<treeVars, muxes, handlers, cache, nLinks, call, errs, wg, held>>

\* A middleware link, called: it runs its code before next and then either
\* calls next (the frame waits for next to return) or returns its own error.
StepLink(t) ==
    /\ Running(t)
    /\ th[t].ctl.mw.t = "link"
    /\ LET c == th[t].ctl.c
           mw == th[t].ctl.mw
           lg == Append(th[t].log, Event("before", mw.fn, ctxs[c].handler.i))
       IN  \E pass \in BOOLEAN :
              th' = [th EXCEPT ![t] =
                      IF pass
                      THEN [ctl |-> Handle(mw.next, c),
                            stack |-> Append(th[t].stack, [f |-> "link", fn |-> mw.fn, c |-> c]),
                            log |-> lg]
                      ELSE [ctl |-> Ret(LinkErr(mw.fn)), stack |-> th[t].stack, log |-> lg]]
    /\ UNCHANGED <<treeVars, muxes, handlers, cache, nLinks, ctxs, call, errs, wg, held>>

\* A wrong link, for comparison: it runs its code after next and returns nil
\* whatever next returned.
ReturnLinkSwallow(t) ==
    /\ call.status = "running"
    /\ th[t].ctl.k = "ret"
    /\ Len(th[t].stack) > 0
    /\ th[t].stack[Len(th[t].stack)].f = "link"
    /\ th' = [th EXCEPT ![t].stack = SubSeq(@, 1, Len(@) - 1),
                        ![t].ctl = [k |-> "ret", err |-> NoErr],
                        ![t].log = Append(@, [e |-> "after",
                                              id |-> th[t].stack[Len(th[t].stack)].fn,
                                              cmd |-> ctxs[th[t].stack[Len(th[t].stack)].c].handler.i])]
    /\ UNCHANGED <<treeVars, muxes, handlers, cache, nLinks, ctxs, call, errs, wg, held>>

\* A link that attaches a value before it calls next, as the links of
\* TestMux_Groups do: next.Handle(ctx.WithValue(key, val)). The key is the
\* link's own, the value names the command the BusContext holds.
StepLinkWithValue(t) ==
    /\ Running(t)
    /\ th[t].ctl.mw.t = "link"
    /\ LET c == th[t].ctl.c
           mw == th[t].ctl.mw
       IN  /\ ctxs' = [ctxs EXCEPT ![c] = WithValue(@, mw.fn, ctxs[c].handler.i)]
           /\ th' = [th EXCEPT ![t] =
                      [ctl |-> Handle(mw.next, c),
                       stack |-> Append(th[t].stack, [f |-> "link", fn |-> mw.fn, c |-> c]),
                       log |-> Append(th[t].log, Event("before", mw.fn, ctxs[c].handler.i))]]
    /\ UNCHANGED <<treeVars, muxes, handlers, cache, nLinks, call, errs, wg, held>>

\* next has returned to a link: it runs its code after next and returns what
\* next returned.
ReturnLink(t) ==
    /\ call.status = "running"
    /\ th[t].ctl.k = "ret"
    /\ Len(th[t].stack) > 0
    /\ Top(t).f = "link"
    /\ th' = [th EXCEPT ![t].stack = Pop(t),
                        ![t].log = Append(@, Event("after", Top(t).fn, ctxs[Top(t).c].handler.i))]
    /\ UNCHANGED <<treeVars, muxes, handlers, cache, nLinks, ctxs, call, errs, wg, held>>

\* A wrong closure, for comparison: every action is validated before the
\* first one is dispatched, and the first rejection ends the call.
StepBatchUpFront(t) ==
    /\ Running(t)
    /\ th[t].ctl.mw = Func("dispatchMulti", 1)
    /\ LET c == th[t].ctl.c
           lg == Append(th[t].log, Event("terminal", 0, 0))
       IN  \/ th' = [th EXCEPT ![t].ctl = [k |-> "loop", i |-> 1, c |-> c], ![t].log = lg]
           \/ \E k \in 1..Len(call.cmds) :
                 th' = [th EXCEPT
                          ![t].ctl = Ret(Errorf2(ErrValidationFailed, ValidateErr(k))),
                          ![t].log = lg \o [i \in 1..k |->
                                              Event("validate", i, ctxs[c].handler.i)]]
    /\ UNCHANGED <<treeVars, muxes, handlers, cache, nLinks, ctxs, call, errs, wg, held>>

\* The closure DispatchMulti hands to the per-call chain starts its loop.
StepBatch(t) ==
    /\ Running(t)
    /\ th[t].ctl.mw = Func("dispatchMulti", 1)
    /\ th' = [th EXCEPT ![t].ctl = [k |-> "loop", i |-> 1, c |-> th[t].ctl.c],
                        ![t].log = Append(@, Event("terminal", 0, 0))]
    /\ UNCHANGED <<treeVars, muxes, handlers, cache, nLinks, ctxs, call, errs, wg, held>>

\* One round of "for _, action := range actions": Validate, then
\* action.Mux().dispatch(ACTION, ctx, action) up to hh.Handle(ctx).
StepLoop(t) ==
    /\ call.status = "running"
    /\ th[t].ctl.k = "loop"
    /\ LET i == th[t].ctl.i
           c == th[t].ctl.c
       IN  IF i > Len(call.cmds)
           THEN /\ th' = [th EXCEPT ![t].ctl = Ret(NoErr)]
                /\ UNCHANGED <<muxes, ctxs>>
           ELSE \E valid \in BOOLEAN :
                  LET lg == Append(th[t].log, Event("validate", i, ctxs[c].handler.i))
                      d == dispatch(muxes, muxOf(call.cmds[i].h), OpAction)
                  IN  IF ~valid
                      THEN /\ th' = [th EXCEPT ![t].ctl = Ret(Errorf2(ErrValidationFailed, ValidateErr(i))),
                                               ![t].log = lg]
                           /\ UNCHANGED <<muxes, ctxs>>
                      ELSE /\ muxes' = d.muxes
                           /\ ctxs' = [ctxs EXCEPT ![c].handler = call.cmds[i]]
                           /\ th' = [th EXCEPT ![t] =
                                       [ctl |-> Handle(d.hh, c),
                                        stack |-> Append(th[t].stack, [f |-> "loop", i |-> i, c |-> c]),
                                        log |-> lg]]
    /\ UNCHANGED <<treeVars, handlers, cache, nLinks, call, errs, wg, held>>

\* A wrong loop, for comparison: it returns after its first command.
ReturnLoopFirstOnly(t) ==
    /\ call.status = "running"
    /\ th[t].ctl.k = "ret"
    /\ Len(th[t].stack) > 0
    /\ th[t].stack[Len(th[t].stack)].f = "loop"
    /\ th' = [th EXCEPT ![t].stack = SubSeq(@, 1, Len(@) - 1)]
    /\ UNCHANGED <<treeVars, muxes, handlers, cache, nLinks, ctxs, call, errs, wg, held>>

\* A wrong loop, for comparison: an error of dispatch is dropped and the
\* loop goes on.
ReturnLoopGoOn(t) ==
    /\ call.status = "running"
    /\ th[t].ctl.k = "ret"
    /\ Len(th[t].stack) > 0
    /\ th[t].stack[Len(th[t].stack)].f = "loop"
    /\ th' = [th EXCEPT ![t].stack = SubSeq(@, 1, Len(@) - 1),
                        ![t].ctl = [k |-> "loop",
                                    i |-> th[t].stack[Len(th[t].stack)].i + 1,
                                    c |-> th[t].stack[Len(th[t].stack)].c]]
    /\ UNCHANGED <<treeVars, muxes, handlers, cache, nLinks, ctxs, call, errs, wg, held>>

\* dispatch has returned to the loop: the first error ends the batch.
ReturnLoop(t) ==
    /\ call.status = "running"
    /\ th[t].ctl.k = "ret"
    /\ Len(th[t].stack) > 0
    /\ Top(t).f = "loop"
    /\ th' = [th EXCEPT ![t].stack = Pop(t),
                        ![t].ctl = IF th[t].ctl.err # NoErr THEN th[t].ctl
                                   ELSE [k |-> "loop", i |-> Top(t).i + 1, c |-> Top(t).c]]
    /\ UNCHANGED <<treeVars, muxes, handlers, cache, nLinks, ctxs, call, errs, wg, held>>

\* The closure of Query, and of a QueryAsync branch:
\* query.Mux().dispatch(QUERY, ctx, query) up to hh.Handle(ctx).
StepQuery(t) ==
    /\ Running(t)
    /\ th[t].ctl.mw.t = "func"
    /\ th[t].ctl.mw.name = "query"
    /\ LET c == th[t].ctl.c
           q == th[t].ctl.mw.q
           d == dispatch(muxes, muxOf(call.cmds[q].h), OpQuery)
       IN  /\ muxes' = d.muxes
           /\ ctxs' = [ctxs EXCEPT ![c].handler = call.cmds[q]]
           /\ th' = [th EXCEPT ![t].ctl = Handle(d.hh, c),
                               ![t].log = Append(@, Event("terminal", q, ctxs[c].handler.i))]
    /\ UNCHANGED <<treeVars, handlers, cache, nLinks, call, errs, wg, held>>

\* The terminal of a per-command chain: ctx.handler.Handle(ctx) runs the
\* handler the context holds, which succeeds or fails.
StepRoute(t) ==
    /\ Running(t)
    /\ th[t].ctl.mw = Func("route", 0)
    /\ LET cmd == ctxs[th[t].ctl.c].handler
       IN  \E ok \in BOOLEAN :
              th' = [th EXCEPT ![t].ctl = Ret(IF ok THEN NoErr ELSE HandlerErr(cmd.i)),
                               ![t].log = Append(@, Event("handler", cmd.h, cmd.i))]
    /\ UNCHANGED <<treeVars, muxes, handlers, cache, nLinks, ctxs, call, errs, wg, held>>

(* ------------------------------ fan-out -------------------------------- *)

\* The closure QueryAsync hands to the per-call chain: one goroutine per
\* query is started (wg.Add(1); go func(query)), then the closure waits.
StepFanOut(t) ==
    /\ Running(t)
    /\ th[t].ctl.mw = Func("queryAsync", 1)
    /\ LET c == th[t].ctl.c
           n == Len(call.cmds)
       IN  /\ wg' = n
           /\ th' = [x \in Threads |->
                      IF x = t
                      THEN [th[t] EXCEPT !.ctl = [k |-> "wait", c |-> c],
                                         !.stack = Append(@, [f |-> "fanout", c |-> c]),
                                         !.log = Append(@, Event("terminal", 0, ctxs[c].handler.i))]
                      ELSE IF x \in 1..n
                      THEN [ctl |-> [k |-> "go", q |-> x, pc |-> c], stack |-> <<>>, log |-> <<>>]
                      ELSE th[x]]
    /\ UNCHANGED <<treeVars, muxes, handlers, cache, nLinks, ctxs, call, errs, held>>

\* A branch starts: pool.Get, Reset, Copy of the caller's BusContext, then
\* mux.mHandlers[mQuery](rctx, closure).
BranchStart(t) ==
    /\ call.status = "running"
    /\ th[t].ctl.k = "go"
    /\ LET c == poolGet(held)
       IN  /\ held' = held \cup {c}
           /\ ctxs' = [ctxs EXCEPT ![c] = Copy(Reset(@), ctxs[th[t].ctl.pc])]
           /\ th' = [th EXCEPT ![t].ctl =
                        Handle(exec(muxes[call.bus].middlewares[mQuery],
                                    Func("query", th[t].ctl.q)), c),
                               ![t].stack = <<[f |-> "go", c |-> c]>>]
    /\ UNCHANGED <<treeVars, muxes, handlers, cache, nLinks, call, errs, wg>>

\* A wrong channel, for comparison: errs is made without a buffer.
errsCapUnbuffered(queries) == 0

\* make(chan error, len(queries)): the capacity of errs.
errsCap(queries) == Len(queries)

\* A branch ends: a non-nil error is sent to errs, then the deferred
\* pool.Put and wg.Done run. Nothing receives from errs before wg.Wait()
\* has returned, so the send goes through only while the buffer has room.
BranchEnd(t) ==
    /\ call.status = "running"
    /\ th[t].ctl.k = "ret"
    /\ Len(th[t].stack) > 0
    /\ Top(t).f = "go"
    /\ th[t].ctl.err # NoErr => Len(errs) < errsCap(call.cmds)
    /\ errs' = IF th[t].ctl.err # NoErr THEN Append(errs, th[t].ctl.err) ELSE errs
    /\ held' = held \ {Top(t).c}
    /\ wg' = wg - 1
    /\ th' = [th EXCEPT ![t].ctl = [k |-> "done", err |-> th[t].ctl.err], ![t].stack = <<>>]
    /\ UNCHANGED <<treeVars, muxes, handlers, cache, nLinks, ctxs, call>>

\* A wrong collection, for comparison: only the first error is kept.
combineFirstOnly(es, i, combinedError) ==
    IF Len(es) = 0 THEN combinedError ELSE es[1]

\* "for err := range errs": the first error, then errors.Join of what is
\* combined so far with the next one.
RECURSIVE combine(_, _, _)
combine(es, i, combinedError) ==
    IF i > Len(es) THEN combinedError
    ELSE combine(es, i + 1,
                 IF combinedError = NoErr THEN es[i] ELSE Join(combinedError, es[i]))

\* A wrong join, for comparison: the closure does not wait for the branches.
StepJoinNoWait(t) ==
    /\ call.status = "running"
    /\ th[t].ctl.k = "wait"
    /\ th' = [th EXCEPT ![t].ctl = Ret(combine(errs, 1, NoErr)),
                        ![t].stack = SubSeq(@, 1, Len(@) - 1)]
    /\ UNCHANGED <<treeVars, muxes, handlers, cache, nLinks, ctxs, call, errs, wg, held>>

\* wg.Wait() returns once every branch is done; the closure returns the
\* combined error.
StepJoin(t) ==
    /\ call.status = "running"
    /\ th[t].ctl.k = "wait"
    /\ wg = 0
    /\ th' = [th EXCEPT ![t].ctl = Ret(combine(errs, 1, NoErr)), ![t].stack = Pop(t)]
    /\ UNCHANGED <<treeVars, muxes, handlers, cache, nLinks, ctxs, call, errs, wg, held>>

\* A wrong return, for comparison: the BusContext is not put back.
ReturnNoPut(t) ==
    /\ call.status = "running"
    /\ th[t].ctl.k = "ret"
    /\ Len(th[t].stack) > 0
    /\ th[t].stack[Len(th[t].stack)].f = "api"
    /\ call' = [call EXCEPT !.status = "returned", !.result = th[t].ctl.err]
    /\ th' = [th EXCEPT ![t].ctl = [k |-> "idle"], ![t].stack = <<>>]
    /\ UNCHANGED <<treeVars, muxes, handlers, cache, nLinks, ctxs, errs, wg, held>>

\* The per-call chain has returned to DispatchMulti / Query / QueryAsync: the
\* deferred pool.Put runs and the call returns the error.
Return(t) ==
    /\ call.status = "running"
    /\ th[t].ctl.k = "ret"
    /\ Len(th[t].stack) > 0
    /\ Top(t).f = "api"
    /\ held' = held \ {Top(t).c}
    /\ call' = [call EXCEPT !.status = "returned", !.result = th[t].ctl.err]
    /\ th' = [th EXCEPT ![t].ctl = [k |-> "idle"], ![t].stack = <<>>]
    /\ UNCHANGED <<treeVars, muxes, handlers, cache, nLinks, ctxs, errs, wg>>

(* ------------------- dispatch, one lock section a step ----------------- *)

\* Where a goroutine is inside mx.dispatch: hh is what it has read, pc what
\* it does next.
InDispatch(q, c, hh, pc) == [k |-> "dispatch", q |-> q, c |-> c, hh |-> hh, pc |-> pc]

\* hh := mx.handlerFor(op), a read under the read lock, and the nil check.
DispatchCheck(t) ==
    /\ Running(t)
    /\ th[t].ctl.mw.t = "func"
    /\ th[t].ctl.mw.name = "query"
    /\ LET q == th[t].ctl.mw.q
           hh == muxes[muxOf(call.cmds[q].h)].handler[OpQuery]
       IN  th' = [th EXCEPT ![t].ctl =
                    InDispatch(q, th[t].ctl.c, hh, IF hh = NilMw THEN "build" ELSE "go")]
    /\ UNCHANGED <<treeVars, muxes, handlers, cache, nLinks, ctxs, call, errs, wg, held>>

\* A wrong build, for comparison: the links are wrapped around the chain
\* that is there, when there is one.
DispatchBuildAround(t) ==
    /\ call.status = "running"
    /\ th[t].ctl.k = "dispatch"
    /\ th[t].ctl.pc = "build"
    /\ LET mx == muxOf(call.cmds[th[t].ctl.q].h)
       IN  muxes' = [muxes EXCEPT ![mx].handler[OpQuery] =
                        chain(OpQuery, muxes[mx].middlewares[mCmd],
                              IF @ = NilMw THEN Func("route", 0) ELSE @)]
    /\ th' = [th EXCEPT ![t].ctl.pc = "load"]
    /\ UNCHANGED <<treeVars, handlers, cache, nLinks, ctxs, call, errs, wg, held>>

\* mx.updateRouteHandler(op), under the write lock: the chain is built from
\* the command middleware and stored, whatever is stored already.
DispatchBuild(t) ==
    /\ call.status = "running"
    /\ th[t].ctl.k = "dispatch"
    /\ th[t].ctl.pc = "build"
    /\ muxes' = updateRouteHandler(muxes, muxOf(call.cmds[th[t].ctl.q].h), OpQuery)
    /\ th' = [th EXCEPT ![t].ctl.pc = "load"]
    /\ UNCHANGED <<treeVars, handlers, cache, nLinks, ctxs, call, errs, wg, held>>

\* hh = mx.handlerFor(op), the read after the build.
DispatchLoad(t) ==
    /\ call.status = "running"
    /\ th[t].ctl.k = "dispatch"
    /\ th[t].ctl.pc = "load"
    /\ th' = [th EXCEPT ![t].ctl.hh = muxes[muxOf(call.cmds[th[t].ctl.q].h)].handler[OpQuery],
                        ![t].ctl.pc = "go"]
    /\ UNCHANGED <<treeVars, muxes, handlers, cache, nLinks, ctxs, call, errs, wg, held>>

\* ctx.handler = h; hh.Handle(ctx).
DispatchGo(t) ==
    /\ call.status = "running"
    /\ th[t].ctl.k = "dispatch"
    /\ th[t].ctl.pc = "go"
    /\ LET c == th[t].ctl.c
           q == th[t].ctl.q
       IN  /\ ctxs' = [ctxs EXCEPT ![c].handler = call.cmds[q]]
           /\ th' = [th EXCEPT ![t].ctl = Handle(th[t].ctl.hh, c),
                               ![t].log = Append(@, Event("terminal", q, ctxs[c].handler.i))]
    /\ UNCHANGED <<treeVars, muxes, handlers, cache, nLinks, call, errs, wg, held>>

(* ------------------------ re-entrant handlers -------------------------- *)

\* Whether goroutine t is inside a Query that a handler has issued.
Nested(t) == \E k \in 1..Len(th[t].stack) : th[t].stack[k].f = "nested"

\* A wrong nested call, for comparison: the nested Query works on the
\* BusContext of the call it was issued from.
HandlerQueryShared(t) ==
    /\ Running(t)
    /\ th[t].ctl.mw = Func("route", 0)
    /\ ~Nested(t)
    /\ \E key \in QueryKeys :
         LET c == th[t].ctl.c
             cmd == ctxs[c].handler
             r == resolveHandler(cache, nodes, OpQuery, key)
             lg == Append(th[t].log, Event("handler", cmd.h, cmd.i))
             inner == [i |-> Len(call.cmds) + 1, key |-> key, h |-> r.h]
         IN  /\ cache' = r.cache
             /\ IF ~r.found
                THEN /\ th' = [th EXCEPT ![t].ctl = Ret(ErrHandlerNotFound(key)),
                                         ![t].log = lg]
                     /\ UNCHANGED <<ctxs, held>>
                ELSE /\ held' = held \cup {c}
                     /\ ctxs' = [ctxs EXCEPT ![c] = [Reset(@) EXCEPT !.ctx = WithBus(call.bus)]]
                     /\ th' = [th EXCEPT ![t] =
                                [ctl |-> Handle(exec(muxes[call.bus].middlewares[mQuery],
                                                     Func("nested", inner)), c),
                                 stack |-> Append(th[t].stack,
                                                  [f |-> "nested", c |-> c, outer |-> c]),
                                 log |-> lg]]
    /\ UNCHANGED <<treeVars, muxes, handlers, nLinks, call, errs, wg>>

\* A handler that calls dew.Query(ctx, query) with the context it was given,
\* as the handler of findUserPost does: the bus is found in ctx, the query is
\* resolved, a BusContext is taken from the pool, reset and bound to ctx, and
\* the per-call Query chain is entered with it. A query that does not resolve
\* makes Query return the error, which the handler returns.
HandlerQuery(t) ==
    /\ Running(t)
    /\ th[t].ctl.mw = Func("route", 0)
    /\ ~Nested(t)
    /\ \E key \in QueryKeys :
         LET c == th[t].ctl.c
             cmd == ctxs[c].handler
             r == resolveHandler(cache, nodes, OpQuery, key)
             c2 == poolGet(held)
             lg == Append(th[t].log, Event("handler", cmd.h, cmd.i))
             inner == [i |-> Len(call.cmds) + 1, key |-> key, h |-> r.h]
         IN  /\ cache' = r.cache
             /\ IF ~r.found
                THEN /\ th' = [th EXCEPT ![t].ctl = Ret(ErrHandlerNotFound(key)),
                                         ![t].log = lg]
                     /\ UNCHANGED <<ctxs, held>>
                ELSE /\ held' = held \cup {c2}
                     /\ ctxs' = [ctxs EXCEPT ![c2] = [Reset(@) EXCEPT !.ctx = WithBus(call.bus)]]
                     /\ th' = [th EXCEPT ![t] =
                                [ctl |-> Handle(exec(muxes[call.bus].middlewares[mQuery],
                                                     Func("nested", inner)), c2),
                                 stack |-> Append(th[t].stack,
                                                  [f |-> "nested", c |-> c2, outer |-> c]),
                                 log |-> lg]]
    /\ UNCHANGED <<treeVars, muxes, handlers, nLinks, call, errs, wg>>

\* The closure of the nested Query: query.Mux().dispatch(QUERY, ctx, query)
\* up to hh.Handle(ctx), on the nested call's BusContext.
StepNestedQuery(t) ==
    /\ Running(t)
    /\ th[t].ctl.mw.t = "func"
    /\ th[t].ctl.mw.name = "nested"
    /\ LET c == th[t].ctl.c
           inner == th[t].ctl.mw.q
           d == dispatch(muxes, muxOf(inner.h), OpQuery)
       IN  /\ muxes' = d.muxes
           /\ ctxs' = [ctxs EXCEPT ![c].handler = inner]
           /\ th' = [th EXCEPT ![t].ctl = Handle(d.hh, c),
                               ![t].log = Append(@, Event("terminal", inner.i, ctxs[c].handler.i))]
    /\ UNCHANGED <<treeVars, handlers, cache, nLinks, call, errs, wg, held>>

\* The nested Query returns: its deferred pool.Put runs, and the handler that
\* issued it returns the error it got, or nil.
ReturnNested(t) ==
    /\ call.status = "running"
    /\ th[t].ctl.k = "ret"
    /\ Len(th[t].stack) > 0
    /\ Top(t).f = "nested"
    /\ held' = held \ {Top(t).c}
    /\ th' = [th EXCEPT ![t].stack = Pop(t)]
    /\ UNCHANGED <<treeVars, muxes, handlers, cache, nLinks, ctxs, call, errs, wg>>

(* --------------------------- the engine -------------------------------- *)

\* The caller's goroutine inside DispatchMulti or Query.
SyncStep ==
    \/ StepExec(0)
    \/ StepLink(0)
    \/ ReturnLink(0)
    \/ StepBatch(0)
    \/ StepLoop(0)
    \/ ReturnLoop(0)
    \/ StepQuery(0)
    \/ StepRoute(0)
    \/ Return(0)

\* Setup on the root mux, then calls of DispatchMulti and Query one after
\* the other.
Next ==
    \/ \E op \in {OpAction, OpQuery, OpAll} : Use(1, op)
    \/ UseDispatch(1)
    \/ UseQuery(1)
    \/ \E key \in TypeKeys : Register(1, key)
    \/ \E keys \in SeqsUpTo(ActionKeys, MaxBatch), hasBus \in BOOLEAN : DispatchMulti(keys, hasBus)
    \/ \E key \in TypeKeys, hasBus \in BOOLEAN : Query(key, hasBus)
    \/ SyncStep

Spec == Init /\ [][Next]_vars

\* A goroutine inside QueryAsync: the caller's or a branch.
AsyncStep(t) ==
    \/ StepExec(t)
    \/ StepLink(t)
    \/ ReturnLink(t)
    \/ StepQuery(t)
    \/ StepRoute(t)
    \/ StepFanOut(t)
    \/ BranchStart(t)
    \/ BranchEnd(t)
    \/ StepJoin(t)
    \/ Return(t)

\* Setup of handlers and query-scope links on the root mux, then calls of
\* QueryAsync one after the other; the goroutines of a call interleave freely.
AsyncNext ==
    \/ UseQuery(1)
    \/ \E key \in TypeKeys : Register(1, key)
    \/ \E keys \in SeqsUpTo(TypeKeys, MaxBatch), hasBus \in BOOLEAN : QueryAsync(keys, hasBus)
    \/ \E t \in Threads : AsyncStep(t)

SpecAsync == Init /\ [][AsyncNext]_vars

\* The same with the Go scheduler's promise: a goroutine that can take a step
\* takes one in the end. Handlers and links return, as every step of the
\* model that enters one leaves it.
SpecAsyncLive == SpecAsync /\ \A t \in Threads : WF_vars(AsyncStep(t))

\* Setup on the root mux with dispatch-scope per-call middleware, then calls of
\* DispatchMulti, Query and QueryAsync one after the other with the bus in
\* the caller's context, so that a BusContext passes from calls to branches
\* and back through the pool.
CallsNext ==
    \/ UseDispatch(1)
    \/ \E key \in TypeKeys : Register(1, key)
    \/ \E keys \in SeqsUpTo(ActionKeys, MaxBatch) : DispatchMulti(keys, TRUE)
    \/ \E key \in QueryKeys : Query(key, TRUE)
    \/ \E keys \in SeqsUpTo(QueryKeys, MaxBatch) : QueryAsync(keys, TRUE)
    \/ SyncStep
    \/ \E t \in Threads : AsyncStep(t)

SpecCalls == Init /\ [][CallsNext]_vars

\* The caller's goroutine inside DispatchMulti when the root has no per-call
\* middleware: exec hands back the closure itself.
ScopeStep ==
    \/ StepLink(0)
    \/ ReturnLink(0)
    \/ StepBatch(0)
    \/ StepLoop(0)
    \/ ReturnLoop(0)
    \/ StepRoute(0)
    \/ Return(0)

\* Setup of a tree of scopes (Group, middleware and handlers on any scope),
\* then calls of DispatchMulti through the root, with command middleware
\* still being added between the calls.
ScopesNext ==
    \/ \E mx \in 1..Len(muxes) : Group(mx)
    \/ \E mx \in 1..Len(muxes) : Use(mx, OpAll)
    \/ UseAfter(1, OpAll)
    \/ \E r \in ScopeRegs : r[1] <= Len(muxes) /\ Register(r[1], r[2])
    \/ \E keys \in ScopeBatches : DispatchMulti(keys, TRUE)
    \/ ScopeStep

SpecScopes == Init /\ [][ScopesNext]_vars

\* The batches of the entry scenarios: none, one or two commands.
EntryBatches(S) == {<<>>} \cup {<<k>> : k \in S} \cup {<<k, l>> : k \in S, l \in S}

\* Setup with per-call middleware of both kinds, then calls of the three
\* entry points with and without a bus in the caller's context, with empty
\* and non-empty batches.
EntryNext ==
    \/ UseDispatch(1)
    \/ UseQuery(1)
    \/ \E key \in TypeKeys : Register(1, key)
    \/ \E keys \in EntryBatches(ActionKeys), hasBus \in BOOLEAN : DispatchMulti(keys, hasBus)
    \/ \E key \in QueryKeys, hasBus \in BOOLEAN : Query(key, hasBus)
    \/ \E keys \in EntryBatches(QueryKeys), hasBus \in BOOLEAN : QueryAsync(keys, hasBus)
    \/ SyncStep
    \/ \E t \in Threads : AsyncStep(t)

SpecEntry == Init /\ [][EntryNext]_vars

\* Handlers that call Query themselves: a per-call Query link, a link for
\* every command, registrations, then Query and DispatchMulti from the
\* caller's goroutine with handlers that may issue one nested Query.
NestedNext ==
    \/ UseQuery(1)
    \/ Use(1, OpAll)
    \/ \E key \in TypeKeys : Register(1, key)
    \/ \E key \in QueryKeys : Query(key, TRUE)
    \/ \E keys \in EntryBatches(ActionKeys) \ {<<>>} : DispatchMulti(keys, TRUE)
    \/ SyncStep
    \/ HandlerQuery(0)
    \/ StepNestedQuery(0)
    \/ ReturnNested(0)

SpecNested == Init /\ [][NestedNext]_vars

\* Links of all three lists on the root, registrations, then DispatchMulti
\* and QueryAsync with the bus in the caller's context: every link may
\* return without calling next.
ShortNext ==
    \/ Use(1, OpAll)
    \/ UseDispatch(1)
    \/ UseQuery(1)
    \/ \E key \in TypeKeys : Register(1, key)
    \/ \E keys \in EntryBatches(ActionKeys) \ {<<>>} : DispatchMulti(keys, TRUE)
    \/ \E keys \in EntryBatches(QueryKeys) \ {<<>>} : QueryAsync(keys, TRUE)
    \/ SyncStep
    \/ \E t \in Threads : AsyncStep(t)

SpecShort == Init /\ [][ShortNext]_vars

\* Scopes made by Group, per-call dispatch links and handlers on any of
\* them, then DispatchMulti with the root or a child bound in the caller's
\* context.
ChildNext ==
    \/ \E mx \in 1..Len(muxes) : Group(mx)
    \/ \E mx \in 1..Len(muxes) : UseDispatch(mx)
    \/ \E r \in ScopeRegs : r[1] <= Len(muxes) /\ Register(r[1], r[2])
    \/ \E b \in 1..Len(muxes), keys \in ScopeBatches : DispatchMultiOn(b, keys)
    \/ StepExec(0)
    \/ ScopeStep

SpecChild == Init /\ [][ChildNext]_vars

\* The scenario of TestMux_Groups with the commands in one batch: children
\* of the root, command links on any scope, handlers in the scopes, then
\* DispatchMulti through the root with links that may attach a value.
ValuesNext ==
    \/ Group(1)
    \/ \E mx \in 1..Len(muxes) : Use(mx, OpAll)
    \/ \E r \in ScopeRegs : r[1] <= Len(muxes) /\ Register(r[1], r[2])
    \/ \E keys \in ScopeBatches : DispatchMulti(keys, TRUE)
    \/ ScopeStep
    \/ StepLinkWithValue(0)

SpecValues == Init /\ [][ValuesNext]_vars

\* A goroutine of QueryAsync whose dispatch is taken one lock section at a
\* time, so that the branches interleave between the check and the build.
RaceStep(t) ==
    \/ StepLink(t)
    \/ ReturnLink(t)
    \/ StepRoute(t)
    \/ StepFanOut(t)
    \/ BranchStart(t)
    \/ BranchEnd(t)
    \/ StepJoin(t)
    \/ Return(t)
    \/ DispatchCheck(t)
    \/ DispatchBuild(t)
    \/ DispatchLoad(t)
    \/ DispatchGo(t)

\* Command links of every mask on the root, handlers, then QueryAsync, whose
\* branches are the first to dispatch a query at the root.
RaceNext ==
    \/ \E op \in {OpAction, OpQuery, OpAll} : Use(1, op)
    \/ \E key \in TypeKeys : Register(1, key)
    \/ \E keys \in EntryBatches(QueryKeys) \ {<<>>} : QueryAsync(keys, TRUE)
    \/ \E t \in Threads : RaceStep(t)

SpecRace == Init /\ [][RaceNext]_vars

\* Setup on the root, calls of DispatchMulti and Query, and between the calls
\* further per-call links and command links on the root.
LateNext ==
    \/ UseDispatch(1)
    \/ \E key \in TypeKeys : Register(1, key)
    \/ UseDispatchAfter(1)
    \/ UseQueryAfter(1)
    \/ UseAfter(1, OpAll)
    \/ \E keys \in EntryBatches(ActionKeys) \ {<<>>} : DispatchMulti(keys, TRUE)
    \/ \E key \in QueryKeys : Query(key, TRUE)
    \/ SyncStep

SpecLate == Init /\ [][LateNext]_vars

(* ------------------------ claims about the router ---------------------- *)

\* C1 (as stated): every insert call whose key differs from the keys of all
\* earlier calls registers its handler, in every insertion order, so that
\* findRoute(kind, key) then returns exactly that handler -- also for a key
\* inserted after a longer key of which it is a strict prefix.
C1_RoundTripEveryOrder ==
    \A a \in attempts : routeHandler(nodes, a.op, a.key) = a.h

\* C2: an insert for an already registered (kind, key) panics, whatever was
\* inserted before or in between, and every registered pair, the duplicated
\* one included, still resolves to the handler registered first.
C2_DuplicateInsertPanics ==
    lastInsert.dup =>
        /\ lastInsert.outcome = "panic_duplicate"
        /\ \A r \in regs : routeHandler(nodes, r.op, r.key) = r.h

\* C2 witness: a duplicate insert was made after two other inserts.
C2_Witness ==
    /\ lastInsert.dup
    /\ lastInsert.outcome = "panic_duplicate"
    /\ Cardinality(regs) >= 2
    /\ \E r \in regs : r.op = lastInsert.op /\ r.key = lastInsert.key
                       /\ r.h # lastInsert.h
                       /\ routeHandler(nodes, r.op, r.key) = r.h

\* C3: findRoute(kind, key) finds a handler only if one was inserted under
\* exactly that kind for that key.
C3_KindStrict ==
    \A op \in OpTypes, key \in Keys :
        routeHandler(nodes, op, key) # Nil =>
            \E r \in regs : r.op = op /\ r.key = key

\* C3 witness: a key carries a handler under ACTION, findRoute finds it under
\* ACTION and returns not-found under QUERY.
C3_Witness ==
    \E r \in regs :
        /\ r.op = OpAction
        /\ routeHandler(nodes, OpAction, r.key) = r.h
        /\ routeHandler(nodes, OpQuery, r.key) = Nil

\* The keys looked up: every non-empty string over 'a', 'b' of up to four
\* bytes, so that prefixes and extensions of the inserted keys are among them.
ProbeKeys == SeqsUpTo({1, 2}, 4) \ {<<>>}

\* The string on the way from the root to node n.
RECURSIVE PathTo(_, _)
PathTo(ns, n) ==
    IF n = 1 THEN <<>>
    ELSE LET par == CHOOSE q \in 1..Len(ns) :
                       \E i \in 1..Len(ns[q].children) : ns[q].children[i] = n
         IN  PathTo(ns, par) \o ns[n].prefix

\* C24: findRoute returns not-found for every key no insert registered --
\* a strict prefix of a registered key, a key ending at a split node without
\* a handler, an extension of a registered key --, and what it returns is a
\* node that carries a handler of the kind and at which the key is used up.
C24_NotFoundUnlessInserted ==
    \A op \in OpTypes, key \in ProbeKeys :
       LET n == findRoute(nodes, 1, op, key)
       IN  /\ (~\E r \in regs : r.key = key) => n = Nil
           /\ n # Nil => /\ nodes[n].handler.handler # Nil
                         /\ nodes[n].handler.op = op
                         /\ PathTo(nodes, n) = key

\* "aba" and "abb" are registered, which split off a node "ab" without a
\* handler: "ab", the prefix "a" and the extension "abaa" are not found.
C24_Witness ==
    /\ \E r \in regs : r.key = <<1, 2, 1>> /\ r.op = OpAction
    /\ \E r \in regs : r.key = <<1, 2, 2>> /\ r.op = OpAction
    /\ \A r \in regs : r.key \notin {<<1>>, <<1, 2>>}
    /\ \E n \in 1..Len(nodes) : /\ n # 1
                                /\ PathTo(nodes, n) = <<1, 2>>
                                /\ nodes[n].handler.handler = Nil
    /\ findRoute(nodes, 1, OpAction, <<1, 2, 1>>) # Nil
    /\ findRoute(nodes, 1, OpAction, <<1, 2>>) = Nil
    /\ findRoute(nodes, 1, OpAction, <<1>>) = Nil
    /\ findRoute(nodes, 1, OpAction, <<1, 2, 1, 1>>) = Nil

\* C25: the router stores one handler per (kind, key): an insert for a key
\* that so far carries a handler under the other kind only is no duplicate
\* and succeeds, and then findRoute returns for each kind its own handler.
C25_OnePerKindAndKey ==
    \A x \in regs :
       ( /\ nInserts > 0
         /\ ~lastInsert.dup
         /\ x.key = lastInsert.key
         /\ x.op # lastInsert.op )
       => /\ lastInsert.outcome = "ok"
          /\ routeHandler(nodes, lastInsert.op, lastInsert.key) = lastInsert.h
          /\ routeHandler(nodes, x.op, x.key) = x.h

(* ------------------------ claims about the engine ---------------------- *)

\* The operation kind the call in hand asks for, and its per-call list.
OpOfCall == IF call.kind = "dispatch" THEN OpAction ELSE OpQuery

ListOfCall == IF call.kind = "dispatch" THEN mDispatch ELSE mQuery

\* The call in hand entered its per-call chain / has come back from it.
Entered == call.status \in {"running", "returned"} /\ Len(call.cmds) > 0

Came == call.status = "returned" /\ Len(call.cmds) > 0

\* How often user code e of id ran in a goroutine's log.
Count(log, e, id) == Cardinality({i \in 1..Len(log) : log[i].e = e /\ log[i].id = id})

\* The ids of the links of a middleware list.
Ids(mws) == {mws[j].fn : j \in 1..Len(mws)}

\* The command-middleware links of the root whose kind mask admits op, in
\* registration order.
Applicable(op) ==
    SelectSeq(muxes[1].middlewares[mCmd],
              LAMBDA l : l.op = OpAll \/ l.op = op)

\* C4: kind strictness at the engine: a handler that runs is registered
\* under the kind the call asks for, and a call with a command that has no
\* handler of that kind returns handler-not-found -- cold or warm cache.
C4_EngineKindStrict ==
    /\ \A t \in Threads : \A i \in 1..Len(th[t].log) :
          th[t].log[i].e = "handler"
             => \E r \in regs : r.h = th[t].log[i].id /\ r.op = OpOfCall
    /\ ( /\ call.status = "returned"
         /\ call.hasBus
         /\ \E i \in 1..Len(call.keys) :
               ~\E r \in regs : r.op = OpOfCall /\ r.key = call.keys[i] )
       => call.result.kind = "handler not found"

\* The events one command leaves when every link of fns passes.
Onion(fns, h, i) ==
    [j \in 1..Len(fns) |-> Event("before", fns[j].fn, i)]
    \o <<Event("handler", h, i)>>
    \o [j \in 1..Len(fns) |-> Event("after", fns[Len(fns) + 1 - j].fn, i)]

RECURSIVE OnionBatch(_, _, _)
OnionBatch(fns, cmds, m) ==
    IF m = 0 THEN <<>> ELSE OnionBatch(fns, cmds, m - 1) \o Onion(fns, cmds[m].h, m)

\* How many commands of the batch reached their handler, read off the result.
Dispatched ==
    IF call.result = NoErr THEN Len(call.cmds)
    ELSE IF call.result.kind = "handler" THEN call.result.i
    ELSE IF call.result.kind = "wrap" THEN call.result.errs[2].i - 1
    ELSE 0

\* What the per-command links and the handlers logged.
CmdLog(log) ==
    SelectSeq(log, LAMBDA ev : \/ ev.e = "handler"
                               \/ /\ ev.e \in {"before", "after"}
                                  /\ ev.id \in Ids(muxes[1].middlewares[mCmd]))

\* C5: per-command onion ordering: when no link short-circuits, a call leaves,
\* for each command it dispatched and in batch order, the before events of
\* the applicable links in registration order, the handler, and the after
\* events in reverse order -- and nothing else.
C5_CommandOnion ==
    (Came /\ call.result.kind # "link")
       => CmdLog(th[0].log) = OnionBatch(Applicable(OpOfCall), call.cmds, Dispatched)

C5_Witness ==
    /\ Came
    /\ call.kind = "dispatch"
    /\ call.result = NoErr
    /\ Len(call.cmds) = 2
    /\ Len(Applicable(OpAction)) = 2
    /\ Len(CmdLog(th[0].log)) = 10

\* What the per-call links and the terminal closure logged, without the
\* command they saw.
CallLog(log) ==
    LET x == SelectSeq(log, LAMBDA ev :
                 \/ ev.e = "terminal"
                 \/ /\ ev.e \in {"before", "after"}
                    /\ ev.id \in Ids(muxes[1].middlewares[mDispatch])
                                 \cup Ids(muxes[1].middlewares[mQuery]))
    IN  [j \in 1..Len(x) |-> <<x[j].e, IF x[j].e = "terminal" THEN 0 ELSE x[j].id>>]

\* A per-call link of the call in hand returned without calling next.
PerCallStopped ==
    /\ call.result.kind = "link"
    /\ call.result.fn \in Ids(muxes[1].middlewares[ListOfCall])

\* C6: per-call onion ordering: when no per-call link short-circuits, one
\* call leaves the before events of its per-call links in registration
\* order, the terminal closure exactly once, and the after events in reverse
\* order.
C6_CallOnion ==
    (Came /\ ~PerCallStopped)
       => LET fns == muxes[1].middlewares[ListOfCall]
          IN  CallLog(th[0].log) =
                 [j \in 1..Len(fns) |-> <<"before", fns[j].fn>>]
                 \o << <<"terminal", 0>> >>
                 \o [j \in 1..Len(fns) |-> <<"after", fns[Len(fns) + 1 - j].fn>>]

C6_Witness ==
    /\ Came
    /\ call.kind = "dispatch"
    /\ Len(call.cmds) = 2
    /\ Len(muxes[1].middlewares[mDispatch]) = 2
    /\ Len(CallLog(th[0].log)) = 5

\* A per-call link registered before the j-th of list m short-circuited.
StoppedBefore(m, j) ==
    /\ call.result.kind = "link"
    /\ \E k \in 1..(j - 1) : muxes[1].middlewares[m][k].fn = call.result.fn

\* C7: a per-call link of the call's own list runs exactly once per call,
\* whatever the batch size (unless a link before it short-circuited, and then
\* it does not run); a link of the other per-call list never runs.
C7_PerCallOnce ==
    Came =>
       \A m \in {mDispatch, mQuery} : \A j \in 1..Len(muxes[1].middlewares[m]) :
          LET n == Count(th[0].log, "before", muxes[1].middlewares[m][j].fn)
          IN  IF m # ListOfCall \/ StoppedBefore(m, j) THEN n = 0 ELSE n = 1

C7_Witness ==
    /\ Came
    /\ call.kind = "dispatch"
    /\ call.result = NoErr
    /\ Len(call.cmds) = 2
    /\ Len(muxes[1].middlewares[mDispatch]) = 1
    /\ Len(muxes[1].middlewares[mQuery]) = 1
    /\ Count(th[0].log, "before", muxes[1].middlewares[mDispatch][1].fn) = 1
    /\ Count(th[0].log, "handler", call.cmds[1].h) = 2

\* C8: when the call succeeds, each applicable per-command link has run
\* once per command of the batch: n times for a batch of n.
C8_PerCommandOnce ==
    (Came /\ call.result = NoErr)
       => \A j \in 1..Len(Applicable(OpOfCall)) :
             Count(th[0].log, "before", Applicable(OpOfCall)[j].fn) = Len(call.cmds)

C8_Witness ==
    /\ Came
    /\ call.kind = "dispatch"
    /\ call.result = NoErr
    /\ Len(call.cmds) = 2
    /\ \E j \in 1..Len(muxes[1].middlewares[mCmd]) :
          /\ muxes[1].middlewares[mCmd][j].op = OpAction
          /\ Count(th[0].log, "before", muxes[1].middlewares[mCmd][j].fn) = 2

\* C9: in QueryAsync a query-scope per-call link never runs in a branch, and
\* runs exactly once in the caller's goroutine around the fan-out (unless a
\* link before it short-circuited).
C9_FanOutPerCallOnce ==
    call.kind = "queryAsync" =>
       \A j \in 1..Len(muxes[1].middlewares[mQuery]) :
          LET fn == muxes[1].middlewares[mQuery][j].fn
          IN  /\ \A t \in 1..MaxBatch : Count(th[t].log, "before", fn) = 0
              /\ Count(th[0].log, "before", fn) <= 1
              /\ (Came /\ ~StoppedBefore(mQuery, j)) => Count(th[0].log, "before", fn) = 1

C9_Witness ==
    /\ Came
    /\ call.kind = "queryAsync"
    /\ Len(call.cmds) = 2
    /\ Len(muxes[1].middlewares[mQuery]) >= 1
    /\ \A t \in 1..2 : th[t].ctl.k = "done" /\ Count(th[t].log, "handler", call.cmds[t].h) = 1
    /\ Count(th[0].log, "before", muxes[1].middlewares[mQuery][1].fn) = 1

\* The fan-out of the QueryAsync call in hand ran and the call is back.
FannedOut ==
    /\ Came
    /\ call.kind = "queryAsync"
    /\ \A t \in 1..Len(call.cmds) : th[t].ctl.k = "done"

\* C10: fan-out error aggregation: QueryAsync returns nil exactly when no
\* branch failed, and otherwise an error in which the error of every failing
\* branch is found by errors.Is.
C10_FanOutErrors ==
    FannedOut =>
       /\ call.result = NoErr <=> \A t \in 1..Len(call.cmds) : th[t].ctl.err = NoErr
       /\ \A t \in 1..Len(call.cmds) :
             th[t].ctl.err # NoErr => Is(call.result, th[t].ctl.err)

C10_Witness ==
    /\ FannedOut
    /\ Len(call.cmds) = 2
    /\ th[1].ctl.err = HandlerErr(1)
    /\ th[2].ctl.err = HandlerErr(2)
    /\ call.result = Join(HandlerErr(2), HandlerErr(1))

\* The caller's goroutine has started the fan-out of the call in hand.
FanOutStarted == \E i \in 1..Len(th[0].log) : th[0].log[i].e = "terminal"

\* C11: QueryAsync starts one branch per query and returns only when all of
\* them have finished; whatever the other branches return, each branch enters
\* the per-command chain of its own query exactly once.
C11_FanOutJoinsAll ==
    call.kind = "queryAsync" =>
       /\ \A t \in 1..MaxBatch :
             /\ Count(th[t].log, "terminal", t) <= 1
             /\ call.status = "returned" => th[t].ctl.k \in {"idle", "done"}
             /\ (FanOutStarted /\ t > Len(call.cmds)) => th[t].ctl.k = "idle"
       /\ (Came /\ FanOutStarted) =>
             \A t \in 1..Len(call.cmds) :
                /\ th[t].ctl.k = "done"
                /\ Count(th[t].log, "terminal", t) = 1
                /\ Count(th[t].log, "handler", call.cmds[t].h) = 1

C11_Witness ==
    /\ FannedOut
    /\ Len(call.cmds) = 2
    /\ th[1].ctl.err = HandlerErr(1)
    /\ th[2].ctl.err = NoErr
    /\ Count(th[2].log, "handler", call.cmds[2].h) = 1
    /\ call.result = HandlerErr(1)

\* The goroutines whose call or branch acquired BusContext c and has not
\* put it back.
Holders(c) == {t \in Threads : Len(th[t].stack) > 0 /\ th[t].stack[1].c = c}

\* The BusContexts goroutine t works on: those of its frames and of the
\* Handle call it is about to make.
Touched(t) ==
    {th[t].stack[i].c : i \in 1..Len(th[t].stack)}
    \cup (IF th[t].ctl.k \in {"handle", "loop", "wait"} THEN {th[t].ctl.c} ELSE {})

\* At every moment a BusContext out of the pool has one holder, one in the
\* pool has none, and a goroutine works on its own BusContext only.
Exclusive ==
    /\ \A c \in CtxIds :
          /\ Cardinality(Holders(c)) <= 1
          /\ c \in held <=> Holders(c) # {}
    /\ \A t \in Threads : \A c \in Touched(t) : Holders(c) = {t}

\* A step that changes a BusContext is a step of the goroutine holding it.
WrittenByHolder ==
    \A c \in CtxIds :
       ctxs'[c] # ctxs[c] => \E t \in Threads : /\ th'[t] # th[t]
                                                 /\ Len(th'[t].stack) > 0
                                                 /\ th'[t].stack[1].c = c

\* C12: context exclusivity: a BusContext is held by at most one call or
\* branch and a pooled one by none, the caller and its branches work on
\* distinct BusContexts, and only its holder writes to a BusContext.
C12_ContextExclusive == []Exclusive /\ [][WrittenByHolder]_vars

C12_Witness ==
    /\ call.kind = "queryAsync"
    /\ call.status = "running"
    /\ Len(call.cmds) = 2
    /\ held = {1, 2, 3}
    /\ th[0].ctl.k = "wait"
    /\ \A t \in 1..2 : th[t].ctl.k = "ret" /\ ctxs[th[t].stack[1].c].handler.i = t
    /\ ctxs[th[0].stack[1].c].handler = NilCmd

\* C13: every BusContext a call or a branch took from the pool is back in the
\* pool when that call or branch has returned, whatever it returned: outside
\* a call nothing is outstanding, and during one exactly the BusContexts of
\* the call and of the branches still running are.
C13_ContextsReleased ==
    /\ call.status # "running" => held = {}
    /\ \A c \in CtxIds : c \in held <=> \E t \in Threads : /\ th[t].ctl.k \notin {"idle", "done", "go"}
                                                          /\ Len(th[t].stack) > 0
                                                          /\ th[t].stack[1].c = c
    /\ Cardinality(held) = Cardinality({t \in Threads : th[t].ctl.k \notin {"idle", "done", "go"}})

C13_Witness ==
    /\ Came
    /\ call.kind = "dispatch"
    /\ Len(call.cmds) = 2
    /\ call.result = Errorf2(ErrValidationFailed, ValidateErr(2))
    /\ held = {}
    /\ ctxs[1].handler.i = 1
    /\ ctxs[2].handler # NilCmd

\* Every per-call link of the call in hand saw no command when it started.
PerCallSeesNoCommand ==
    \A i \in 1..Len(th[0].log) :
       ( /\ th[0].log[i].e = "before"
         /\ th[0].log[i].id \in Ids(muxes[1].middlewares[mDispatch])
                                \cup Ids(muxes[1].middlewares[mQuery]) )
       => th[0].log[i].cmd = 0

\* The BusContext a call starts with holds the caller's context and nothing
\* else: cursor 0, no command.
StartsBlank ==
    (call.status # "running" /\ call'.status = "running")
       => ctxs'[th'[0].stack[1].c] = [ctx |-> WithBus(1), mwsIdx |-> 0, handler |-> NilCmd]

\* C14: context reuse hygiene: whatever earlier calls left in the pooled
\* BusContext, a new call starts with a blank one, and a per-call link that
\* reads Command() before any command of the call is dispatched gets nil.
C14_ReuseHygiene == []PerCallSeesNoCommand /\ [][StartsBlank]_vars

C14_Witness ==
    /\ call.status = "running"
    /\ call.kind = "dispatch"
    /\ muxes[1].handler[OpAction] # NilMw
    /\ Len(th[0].log) = 1
    /\ th[0].log[1].e = "before"
    /\ th[0].log[1].id \in Ids(muxes[1].middlewares[mDispatch])
    /\ th[0].log[1].cmd = 0
    /\ th[0].ctl.k = "handle"
    /\ ctxs[th[0].stack[1].c].mwsIdx = 1

(* ------------------------- claims about scopes ------------------------- *)

\* The links of a wrapped chain, outermost first.
RECURSIVE LinksOf(_)
LinksOf(mw) == IF mw.t = "link" THEN <<mw.fn>> \o LinksOf(mw.next) ELSE <<>>

\* The scope that owns the handler of the i-th command of the call.
OwnerOf(i) == (CHOOSE x \in handlers : x.h = call.cmds[i].h).mux

\* What the links and the handler logged while the i-th command was the
\* command of the context.
BlockOf(log, i) ==
    SelectSeq(log, LAMBDA ev : ev.e \in {"before", "after", "handler"} /\ ev.cmd = i)

\* A step that changes the middleware lists of one scope leaves the lists
\* and the built chains of every other scope as they were.
OtherScopesKept ==
    \A mx \in 1..Len(muxes) :
       muxes'[mx].middlewares # muxes[mx].middlewares
          => \A o \in (1..Len(muxes)) \ {mx} :
                /\ muxes'[o].middlewares = muxes[o].middlewares
                /\ muxes'[o].handler = muxes[o].handler

\* No link that only the parent's list holds has run around a command owned
\* by the child, and none sits in a chain the child has built.
NoLaterParentLink ==
    /\ \A mx \in 1..Len(muxes) : \A op \in {OpAction, OpQuery} :
          (muxes[mx].parent # Nil /\ muxes[mx].handler[op] # NilMw)
             => \A j \in 1..Len(LinksOf(muxes[mx].handler[op])) :
                   LinksOf(muxes[mx].handler[op])[j]
                      \notin Ids(muxes[muxes[mx].parent].middlewares[mCmd])
                                \ Ids(muxes[mx].middlewares[mCmd])
    /\ Entered
          => \A i \in 1..Len(call.cmds) :
                muxes[OwnerOf(i)].parent # Nil
                   => \A j \in 1..Len(th[0].log) :
                         (th[0].log[j].e \in {"before", "after"} /\ th[0].log[j].cmd = i)
                            => th[0].log[j].id
                                  \notin Ids(muxes[muxes[OwnerOf(i)].parent].middlewares[mCmd])
                                            \ Ids(muxes[OwnerOf(i)].middlewares[mCmd])

FnsOf(mws) == [j \in 1..Len(mws) |-> mws[j].fn]

\* A scope that is created starts with its parent's lists of that moment.
CreatedWithParentLists ==
    Len(muxes') = Len(muxes) + 1
       => LET n == Len(muxes')
          IN  /\ muxes'[n].parent \in 1..Len(muxes)
              /\ muxes'[n].middlewares = muxes[muxes'[n].parent].middlewares

\* A scope's command-middleware list only grows at its end, by the scope's
\* own additions.
ListsAppendOnly ==
    \A mx \in 1..Len(muxes) :
       LET old == muxes[mx].middlewares[mCmd]
           new == muxes'[mx].middlewares[mCmd]
       IN  new # old => /\ Len(new) = Len(old) + 1
                        /\ SubSeq(new, 1, Len(old)) = old
                        /\ new[Len(new)].fn \notin UNION {Ids(muxes[o].middlewares[mCmd]) : o \in 1..Len(muxes)}

\* A chain that is built holds the links of its scope's list of that moment
\* that admit the kind, in list order.
BuiltFromOwnList ==
    \A mx \in 1..Len(muxes) : \A op \in {OpAction, OpQuery} :
       (muxes[mx].handler[op] = NilMw /\ muxes'[mx].handler[op] # NilMw)
          => LinksOf(muxes'[mx].handler[op])
                = FnsOf(filterMiddleware(op, muxes[mx].middlewares[mCmd]))

\* Every link that ran around a command is in the list of the scope that
\* owns the command's handler.
OnlyOwnersLinks ==
    Entered
       => \A i \in 1..Len(call.cmds) : \A j \in 1..Len(th[0].log) :
             (th[0].log[j].e \in {"before", "after"} /\ th[0].log[j].cmd = i)
                => th[0].log[j].id \in Ids(muxes[OwnerOf(i)].middlewares[mCmd])

\* C16: a child's per-command chain is the parent's command middleware as of
\* the child's creation followed, in registration order, by the child's own
\* additions, and the links a scope added never run around a command whose
\* handler another scope (parent or sibling) owns.
C16_ChildChain ==
    /\ []OnlyOwnersLinks
    /\ [][CreatedWithParentLists /\ ListsAppendOnly /\ BuiltFromOwnList]_vars

\* The root had one link when the child was made and the child added one;
\* a batch of a child-owned and a root-owned command has run to the end: the
\* first went through both links, the second through the root's alone.
C16_Witness ==
    /\ Came
    /\ call.result = NoErr
    /\ Len(call.cmds) = 2
    /\ OwnerOf(1) = 2
    /\ OwnerOf(2) = 1
    /\ muxes[2].parent = 1
    /\ FnsOf(muxes[1].middlewares[mCmd]) = <<1>>
    /\ FnsOf(muxes[2].middlewares[mCmd]) = <<1, 2>>
    /\ BlockOf(th[0].log, 1) = Onion(muxes[2].middlewares[mCmd], call.cmds[1].h, 1)
    /\ BlockOf(th[0].log, 2) = Onion(muxes[1].middlewares[mCmd], call.cmds[2].h, 2)

\* The events one command leaves when it runs through the chain whose links
\* are fns, outermost first, and every link passes.
ChainOnion(fns, h, i) ==
    [j \in 1..Len(fns) |-> Event("before", fns[j], i)]
    \o <<Event("handler", h, i)>>
    \o [j \in 1..Len(fns) |-> Event("after", fns[Len(fns) + 1 - j], i)]

\* Every action type of the batch has a handler somewhere in the tree.
AllRegistered ==
    \A i \in 1..Len(call.keys) :
       \E x \in handlers : x.key = call.keys[i] /\ x.op = OpAction

\* C17: a handler registered in any scope is reached by a call entered
\* through the root, and a command runs through the chain of the scope that
\* registered its handler, whichever scope the caller's context binds: in a
\* mixed batch each command's events are those of its own owner's chain.
C17_OwnersChain ==
    /\ ( /\ call.kind = "dispatch"
         /\ call.status \notin {"none", "crashed"}
         /\ Len(call.keys) > 0
         /\ AllRegistered )
       => /\ call.status \in {"running", "returned"}
          /\ call.result.kind # "handler not found"
          /\ Len(call.cmds) = Len(call.keys)
          /\ \A i \in 1..Len(call.cmds) :
                \E x \in handlers : x.key = call.keys[i] /\ x.h = call.cmds[i].h
    /\ Came
       => \A i \in 1..Len(call.cmds) :
             Count(th[0].log, "handler", call.cmds[i].h) > 0
                => /\ muxes[OwnerOf(i)].handler[OpAction] # NilMw
                   /\ BlockOf(th[0].log, i)
                         = ChainOnion(LinksOf(muxes[OwnerOf(i)].handler[OpAction]),
                                      call.cmds[i].h, i)

\* A batch of two commands owned by the two children of the root, which
\* carry different links, entered through the root, has run to the end.
C17_Witness ==
    /\ Came
    /\ call.bus = 1
    /\ call.result = NoErr
    /\ Len(call.cmds) = 2
    /\ OwnerOf(1) = 2
    /\ OwnerOf(2) = 3
    /\ muxes[1].middlewares[mCmd] = <<>>
    /\ LinksOf(muxes[2].handler[OpAction]) = <<1>>
    /\ LinksOf(muxes[3].handler[OpAction]) = <<2>>
    /\ Len(th[0].log) = 9

(* ---------------------- claims about one batch ------------------------- *)

\* What the loop of DispatchMulti logged: the validations, the per-command
\* links and the handlers.
LoopLog(log) ==
    SelectSeq(log, LAMBDA ev : \/ ev.e \in {"validate", "handler"}
                               \/ /\ ev.e \in {"before", "after"}
                                  /\ ev.id \in Ids(muxes[1].middlewares[mCmd]))

\* The command an event of the loop belongs to.
IdxOf(ev) == IF ev.e = "validate" THEN ev.id ELSE ev.cmd

IdxLog(log) == [j \in 1..Len(LoopLog(log)) |-> IdxOf(LoopLog(log)[j])]

\* C18: within one Dispatch batch everything happens on the caller's
\* goroutine and command by command in submission order: once anything of
\* command i+1 has started nothing of command i happens any more, each
\* command starts with its validation, and its handler, the one resolved
\* for the i-th action handed over, is invoked at most once.
C18_BatchInOrder ==
    (call.kind = "dispatch" /\ Entered)
       => LET x == LoopLog(th[0].log)
          IN  /\ \A t \in 1..MaxBatch : th[t].log = <<>> /\ th[t].ctl.k = "idle"
              /\ Cardinality({j \in 1..Len(th[0].stack) : th[0].stack[j].f = "loop"}) <= 1
              /\ \A j, k \in 1..Len(x) : j < k => IdxOf(x[j]) <= IdxOf(x[k])
              /\ \A j \in 1..Len(x) :
                    /\ IdxOf(x[j]) \in 1..Len(call.cmds)
                    /\ x[j].e # "validate"
                          => \E k \in 1..(j - 1) : x[k] .e = "validate" /\ x[k].id = IdxOf(x[j])
                    /\ x[j].e = "handler"
                          => /\ x[j].id = call.cmds[x[j].cmd].h
                             /\ call.cmds[x[j].cmd].key = call.keys[x[j].cmd]
                             /\ \A k \in 1..Len(x) :
                                   (x[k].e = "handler" /\ x[k].cmd = x[j].cmd) => k = j

\* A batch of two actions behind one command link has run to the end: four
\* events of the first command, then four of the second.
C18_Witness ==
    /\ Came
    /\ call.kind = "dispatch"
    /\ call.result = NoErr
    /\ Len(call.cmds) = 2
    /\ IdxLog(th[0].log) = <<1, 1, 1, 1, 2, 2, 2, 2>>

\* The last thing the loop did was to validate the i-th action: its
\* validation failed.
ValidationFailedAt(i) ==
    /\ Len(LoopLog(th[0].log)) > 0
    /\ LoopLog(th[0].log)[Len(LoopLog(th[0].log))] = Event("validate", i, i - 1)

ErrorOnItsWay ==
    /\ call.status = "running"
    /\ call.kind \in {"dispatch", "query"}
    /\ th[0].ctl.k = "ret"
    /\ th[0].ctl.err.kind \in {"handler", "link"}

\* On its way up the error stays the value it is until the call returns
\* it, and meanwhile only the code after next of the links around it runs.
ErrorHandedUp ==
    ErrorOnItsWay
       => /\ \/ call'.status = "running" /\ th'[0].ctl = th[0].ctl
             \/ call'.status = "returned" /\ call'.result = th[0].ctl.err
          /\ Len(th'[0].log) >= Len(th[0].log)
          /\ SubSeq(th'[0].log, 1, Len(th[0].log)) = th[0].log
          /\ \A j \in (Len(th[0].log) + 1)..Len(th'[0].log) : th'[0].log[j].e = "after"

\* A call that returned the error of a handler or of a command link did
\* nothing of a later command.
NothingAfterError ==
    (Came /\ call.kind \in {"dispatch", "query"})
       => /\ call.result.kind = "handler"
             => /\ call.result.i \in 1..Len(call.cmds)
                /\ Count(th[0].log, "handler", call.cmds[call.result.i].h) >= 1
                /\ \A j \in 1..Len(LoopLog(th[0].log)) :
                      IdxOf(LoopLog(th[0].log)[j]) <= call.result.i
          /\ (call.result.kind = "link" /\ call.result.fn \in Ids(muxes[1].middlewares[mCmd]))
                => \E j \in 1..Len(th[0].log) :
                      /\ th[0].log[j] .e = "before"
                      /\ th[0].log[j].id = call.result.fn
                      /\ \A k \in (j + 1)..Len(th[0].log) :
                            th[0].log[k].e \in {"after"}

\* C20: the error a handler or a command middleware returns is what
\* Dispatch / Query returns, the same value and not a wrapped or another
\* one, and after it no later command of the batch is validated or handled.
C20_ErrorUnchanged == []NothingAfterError /\ [][ErrorHandedUp]_vars

\* The handler of the first of two actions, behind one command link, has
\* failed: the call returned that error and never came to the second.
C20_Witness ==
    /\ Came
    /\ call.kind = "dispatch"
    /\ Len(call.cmds) = 2
    /\ call.result = HandlerErr(1)
    /\ Len(Applicable(OpAction)) = 1
    /\ IdxLog(th[0].log) = <<1, 1, 1, 1>>
    /\ Count(th[0].log, "validate", 2) = 0

(* --------------------- claims about the call entry --------------------- *)

\* A call has been made with a bus in the caller's context.
Called == call.kind # "none" /\ call.status \notin {"none", "crashed"}

\* Some command of the batch has no handler registered under the kind the
\* call asks for.
SomeUnregistered ==
    \E i \in 1..Len(call.keys) :
       ~\E r \in regs : r.op = OpOfCall /\ r.key = call.keys[i]

\* No user code has run in the call, and no context is out of the pool.
NothingRan ==
    /\ held = {}
    /\ \A t \in Threads : th[t].log = <<>> /\ th[t].ctl.k = "idle"

\* C21: a call with a command that has no handler registered under the
\* required kind returns handler-not-found and nothing of the batch runs:
\* no context is acquired and no middleware, validation or handler is
\* invoked.
C21_NotFoundNothingRuns ==
    (Called /\ call.hasBus /\ SomeUnregistered)
       => /\ call.status = "returned"
          /\ call.result.kind = "handler not found"
          /\ call.cmds = <<>>
          /\ NothingRan

\* C22: the guards at the call entry: DispatchMulti and QueryAsync with an
\* empty batch return nil and run nothing, with or without a bus in the
\* caller's context; a call with commands (Query always has one) whose
\* context carries no bus returns the bus-not-found error and runs nothing.
C22_EntryGuards ==
    call.kind # "none"
       => /\ (call.kind \in {"dispatch", "queryAsync"} /\ Len(call.keys) = 0)
                => /\ call.status = "returned"
                   /\ call.result = NoErr
                   /\ NothingRan
          /\ (~call.hasBus /\ Len(call.keys) > 0)
                => /\ call.status = "returned"
                   /\ call.result = ErrBusNotFound
                   /\ call.cmds = <<>>
                   /\ NothingRan

\* QueryAsync was called with no query and no bus in the context, on a mux
\* that has query middleware and a handler: it returned nil.
C22_Witness ==
    /\ call.kind = "queryAsync"
    /\ call.keys = <<>>
    /\ ~call.hasBus
    /\ call.status = "returned"
    /\ call.result = NoErr
    /\ Len(muxes[1].middlewares[mQuery]) > 0
    /\ regs # {}
    /\ NothingRan

(* ------------------ claims about the per-command chain ----------------- *)

\* The kinds a mask admits: ACTION admits actions, QUERY queries, ALL both.
Admits(mask, k) ==
    \/ mask = OpAll
    \/ mask = k

\* C23: kind filtering of the command middleware: the chain built for kind k
\* holds exactly the links of the list whose mask admits k, in registration
\* order, and in a call that ran through a link of the list has run if and
\* only if its mask admits the kind of the call.
C23_KindFiltering ==
    /\ \A k \in {OpAction, OpQuery} :
          muxes[1].handler[k] # NilMw
             => LinksOf(muxes[1].handler[k])
                   = FnsOf(SelectSeq(muxes[1].middlewares[mCmd],
                                     LAMBDA l : Admits(l.op, k)))
    /\ (Came /\ call.result = NoErr /\ call.kind \in {"dispatch", "query"})
          => \A j \in 1..Len(muxes[1].middlewares[mCmd]) :
                LET l == muxes[1].middlewares[mCmd][j]
                IN  (Count(th[0].log, "before", l.fn) > 0) <=> Admits(l.op, OpOfCall)

\* An ACTION link and a QUERY link are registered; a query has run through
\* the second and not through the first.
C23_Witness ==
    /\ Came
    /\ call.kind = "query"
    /\ call.result = NoErr
    /\ muxes[1].middlewares[mCmd] = <<[op |-> OpAction, fn |-> 1], [op |-> OpQuery, fn |-> 2]>>
    /\ LinksOf(muxes[1].handler[OpQuery]) = <<2>>
    /\ Count(th[0].log, "before", 2) = 1
    /\ Count(th[0].log, "before", 1) = 0

(* --------------------- claims about registration ----------------------- *)

\* A Register for a command type that some scope of the tree has a handler
\* for panics and leaves every registered handler in place.
DuplicateInTreeFails ==
    \A mx \in 1..Len(muxes), key \in AllTypeKeys :
       ( /\ Register(mx, key)
         /\ \E x \in handlers : x.key = key /\ x.op = kindOf(key) )
       => /\ call'.status = "crashed"
          /\ handlers' = handlers
          /\ regs' = regs
          /\ \A x \in handlers : routeHandler(nodes', x.op, x.key) = x.h

\* The tree holds at most one handler per kind and command type, whichever
\* scopes registered.
OneHandlerInTree ==
    \A x, y \in handlers : (x.key = y.key /\ x.op = y.op) => x = y

BuiltOnceByDispatch ==
    \A mx \in 1..Len(muxes) : \A op \in {OpAction, OpQuery} :
       /\ muxes[mx].handler[op] # NilMw
             => muxes'[mx].handler[op] = muxes[mx].handler[op]
       /\ (muxes[mx].handler[op] = NilMw /\ muxes'[mx].handler[op] # NilMw)
             => /\ call.status = "running"
                /\ th[0].ctl.k = "loop"
                /\ th[0].ctl.i \in 1..Len(call.cmds)
                /\ OwnerOf(th[0].ctl.i) = mx
                /\ op = OpOfCall

\* The links that run around a command are those of the chain its scope has
\* built, whatever the scope's list holds by now.
RunsTheBuiltChain ==
    Entered
       => \A i \in 1..Len(call.cmds) : \A j \in 1..Len(th[0].log) :
             (th[0].log[j].e \in {"before", "after"} /\ th[0].log[j].cmd = i)
                => /\ muxes[OwnerOf(i)].handler[OpAction] # NilMw
                   /\ \E k \in 1..Len(LinksOf(muxes[OwnerOf(i)].handler[OpAction])) :
                         LinksOf(muxes[OwnerOf(i)].handler[OpAction])[k] = th[0].log[j].id

\* C27: the per-command chain of a scope and kind is built at the first
\* dispatch of that kind at that scope and used from then on: a Use on the
\* scope after that build does not change the links that run.
C27_ChainBuiltOnce == []RunsTheBuiltChain /\ [][BuiltOnceByDispatch]_vars

\* The root built its chain with its one link, got a second link after
\* that, and in the call now running a root-owned command has gone through
\* the first link to its handler, not through the second.
C27_Witness ==
    /\ call.status = "running"
    /\ Len(call.cmds) > 0
    /\ OwnerOf(1) = 1
    /\ FnsOf(muxes[1].middlewares[mCmd]) = <<1, 2>>
    /\ LinksOf(muxes[1].handler[OpAction]) = <<1>>
    /\ Count(th[0].log, "handler", call.cmds[1].h) = 1
    /\ Count(th[0].log, "before", 1) = 1
    /\ Count(th[0].log, "before", 2) = 0

\* The scope mx and its ancestors up to the root.
RECURSIVE UpToRoot(_, _)
UpToRoot(mxs, mx) ==
    IF mxs[mx].parent = Nil THEN {mx} ELSE {mx} \cup UpToRoot(mxs, mxs[mx].parent)

\* Both per-call entry points of scope mx are built.
BothBuilt(mxs, mx) == \A m \in {mDispatch, mQuery} : mxs[mx].mHandlers[m] # Nil

\* A Register that returns leaves its scope and every ancestor with both
\* entry points built, and no step replaces an entry point that is built.
RegisterBuildsUpwards ==
    /\ \A mx \in 1..Len(muxes), key \in AllTypeKeys :
          (Register(mx, key) /\ call'.status # "crashed")
             => \A a \in UpToRoot(muxes, mx) : BothBuilt(muxes', a)
    /\ \A mx \in 1..Len(muxes) : \A m \in {mDispatch, mQuery} :
          muxes[mx].mHandlers[m] # Nil
             => muxes'[mx].mHandlers[m] = muxes[mx].mHandlers[m]

\* Every scope that owns a handler, and each of its ancestors, has both
\* entry points built.
OwnersBuiltUpwards ==
    \A x \in handlers : \A a \in UpToRoot(muxes, x.mux) : BothBuilt(muxes, a)

\* C28: after Register on a scope, the scope and every ancestor up to the
\* root have both per-call chains (dispatch and query) built, and a later
\* Register does not rebuild one that is built.
C28_SetupHandler == []OwnersBuiltUpwards /\ [][RegisterBuildsUpwards]_vars

\* A grandchild of the root registered after its parent did: its entry
\* points are from its own Register, those of its parent and of the root
\* still from the first.
C28_Witness ==
    /\ Len(muxes) = 3
    /\ muxes[2].parent = 1
    /\ muxes[3].parent = 2
    /\ \E x \in handlers : x.mux = 2 /\ x.h = 1
    /\ \E x \in handlers : x.mux = 3 /\ x.h = 2
    /\ \A m \in {mDispatch, mQuery} : /\ muxes[1].mHandlers[m] = 1
                                      /\ muxes[2].mHandlers[m] = 1
                                      /\ muxes[3].mHandlers[m] = 2


(* --------------------- claims about re-entrant handlers ---------------- *)

\* The frames of the nested Query on the caller's goroutine.
NestedFrames == { k \in 1..Len(th[0].stack) : th[0].stack[k].f = "nested" }

\* The nested call holds a BusContext of its own while the outer call holds
\* its BusContext.
NestedContextDiffers ==
    \A k \in NestedFrames :
        /\ th[0].stack[k].c # th[0].stack[k].outer
        /\ th[0].stack[k].outer = th[0].stack[1].c
        /\ {th[0].stack[k].c, th[0].stack[k].outer} \subseteq held

\* The step that enters the nested call starts the per-call Query chain of
\* the bus on the nested BusContext, with cursor 0 and no current command.
NestedStartsAtZero ==
    (~Nested(0) /\ Nested(0)') =>
        LET fr == th'[0].stack[Len(th'[0].stack)]
        IN  /\ ctxs'[fr.c].mwsIdx = 0
            /\ ctxs'[fr.c].handler = NilCmd
            /\ th'[0].ctl.k = "handle"
            /\ th'[0].ctl.c = fr.c
            /\ \E key \in QueryKeys, h \in 1..MaxInserts :
                  th'[0].ctl.mw =
                      exec(muxes[call.bus].middlewares[mQuery],
                           Func("nested", [i |-> Len(call.cmds) + 1, key |-> key, h |-> h]))

\* From the nested call's first step to its return, the outer BusContext
\* keeps its cursor and its current command.
OuterUntouched ==
    Nested(0) =>
        \A k \in NestedFrames :
            ctxs'[th[0].stack[k].outer] = ctxs[th[0].stack[k].outer]

\* How often link fn has logged event e.
CountOf(e, fn) ==
    Cardinality({ k \in 1..Len(th[0].log) :
                    th[0].log[k].e = e /\ th[0].log[k].id = fn })

\* The outer call ends with every BusContext back in the pool, and when
\* nothing failed every link that ran its code before next has run its code
\* after next as often.
OuterCompletes ==
    call.status = "returned" =>
        /\ held = {}
        /\ Len(th[0].stack) = 0
        /\ call.result = NoErr =>
              \A k \in 1..Len(th[0].log) :
                  th[0].log[k].e = "before" =>
                      CountOf("before", th[0].log[k].id) = CountOf("after", th[0].log[k].id)

LabelsOf(n) == [i \in 1..Len(nodes[n].children) |-> nodes[nodes[n].children[i]].label]

\* C30: after every insert, splits included, the children of every node are
\* in strictly increasing order of edge label, so no two children of one
\* parent share a label.
C30_ChildrenSorted ==
    \A n \in 1..Len(nodes) :
        \A i, j \in 1..Len(nodes[n].children) :
            i < j => LabelsOf(n)[i] < LabelsOf(n)[j]

\* A split has left a node below the root with two children, the one created
\* later in front of the one it was split from, and a third insert went to
\* the root after it.
C30_Witness ==
    /\ lastInsert.outcome = "ok"
    /\ \E n \in 2..Len(nodes) :
          /\ Len(nodes[n].children) = 2
          /\ nodes[n].children[1] > nodes[n].children[2]
    /\ Len(nodes[1].children) = 2

(* ------------------- claims about the lookup of a child ---------------- *)

\* The byte labels looked up: one below the smallest label a key gives (the
\* label findRoute uses for an exhausted key), the labels of the keys, and
\* one above the largest.
ProbeLabels ==
    {0} \cup UNION { UNION { { k[i], k[i] + 1 } : i \in 1..Len(k) } : k \in EdgeKeys }

\* The children of n that carry the label.
WithLabel(n, label) ==
    { nodes[n].children[i] : i \in { j \in 1..Len(nodes[n].children) :
                                       nodes[nodes[n].children[j]].label = label } }

\* C31: on every children list the inserts produce and for every label, the
\* binary search of lookup and the linear scan of insert give the same node:
\* the child with that label when there is one, none otherwise.
C31_LookupEquivalence ==
    \A n \in 1..Len(nodes) : \A label \in ProbeLabels :
        /\ findEdge(nodes, nodes[n].children, label) = getEdge(nodes, n, label)
        /\ IF WithLabel(n, label) = {}
           THEN getEdge(nodes, n, label) = Nil
           ELSE WithLabel(n, label) = {getEdge(nodes, n, label)}

\* A list of three children with a gap between two labels, beside a list of
\* one child and an empty list.
C31_Witness ==
    /\ \E n \in 1..Len(nodes) :
          /\ Len(nodes[n].children) >= 3
          /\ \E label \in ProbeLabels :
                /\ WithLabel(n, label) = {}
                /\ LabelsOf(n)[1] < label
                /\ label < LabelsOf(n)[Len(nodes[n].children)]
    /\ \E n \in 1..Len(nodes) : Len(nodes[n].children) = 0

(* ------------------- claims about the per-call cursor ------------------ *)

\* The per-call links of the chain the running call goes through.
PerCallLinks == muxes[call.bus].middlewares[ListOfCall]

\* The terminal closures of the per-call chains.
TerminalNames == {"dispatchMulti", "query", "queryAsync", "nested"}

\* The cursor of a BusContext in use lies between 0 and the number of
\* per-call links.
CursorInRange ==
    call.status = "running" =>
        \A c \in held : ctxs[c].mwsIdx \in 0..Len(PerCallLinks)

\* A goroutine is about to run a terminal closure only with the cursor of its
\* BusContext at the end of the list.
TerminalAtEnd ==
    call.status = "running" =>
        \A t \in Threads :
            (/\ th[t].ctl.k = "handle"
             /\ th[t].ctl.mw.t = "func"
             /\ th[t].ctl.mw.name \in TerminalNames)
               => ctxs[th[t].ctl.c].mwsIdx = Len(PerCallLinks)

\* No goroutine has entered a per-call link twice with its BusContext.
EnteredAtMostOnce ==
    call.status \in {"running", "returned"} =>
        \A t \in Threads : \A j \in 1..Len(PerCallLinks) :
            Count(th[t].log, "before", PerCallLinks[j].fn) <= 1

\* While a BusContext stays out of the pool its cursor does not go down.
CursorMonotone ==
    \A c \in held \cap held' : ctxs'[c].mwsIdx >= ctxs[c].mwsIdx

\* C32: during a call the cursor of the BusContext never decreases and stays
\* within 0..number of per-call links; a per-call link is entered at most
\* once per context, and the terminal closure runs only with the cursor at
\* the number of links.
C32_CursorInvariant ==
    /\ [](CursorInRange /\ TerminalAtEnd /\ EnteredAtMostOnce)
    /\ [][CursorMonotone]_vars

\* A batch of two went through two per-call links: the cursor is at 2 while
\* the second command is handled.
C32_Witness ==
    /\ call.status = "running"
    /\ call.kind = "dispatch"
    /\ Len(call.cmds) = 2
    /\ Len(PerCallLinks) = 2
    /\ th[0].ctl.k = "handle"
    /\ th[0].ctl.mw = Func("route", 0)
    /\ ctxs[th[0].ctl.c].handler.i = 2
    /\ ctxs[th[0].ctl.c].mwsIdx = 2

(* ----------------------- claims about short-circuit -------------------- *)

\* Goroutine t is handing up the error of a link that returned without
\* calling next.
InHand(t) == th[t].ctl.k = "ret" /\ th[t].ctl.err.kind = "link"

\* What a goroutine does with such an error: the links around the one that
\* stopped run their code after next and return the same error, until the
\* call returns it or the branch reports it; nothing else runs.
HandedUp(t) ==
    InHand(t) =>
        \/ /\ th'[t].ctl = th[t].ctl
           /\ \/ th'[t].log = th[t].log
              \/ /\ Len(th'[t].log) = Len(th[t].log) + 1
                 /\ SubSeq(th'[t].log, 1, Len(th[t].log)) = th[t].log
                 /\ th'[t].log[Len(th'[t].log)].e = "after"
        \/ /\ t = 0
           /\ call'.status = "returned"
           /\ call'.result = th[t].ctl.err
           /\ th'[t].log = th[t].log
        \/ /\ t # 0
           /\ th'[t].ctl = [k |-> "done", err |-> th[t].ctl.err]
           /\ th'[t].log = th[t].log

\* The step in which a link returns without calling next hands its error to
\* its caller and enters nothing.
StopsThere(t) ==
    (/\ th[t].ctl.k = "handle"
     /\ th[t].ctl.mw.t = "link"
     /\ th'[t].ctl.k = "ret")
       => /\ th'[t].ctl.err = LinkErr(th[t].ctl.mw.fn)
          /\ th'[t].stack = th[t].stack
          /\ th'[t].log = Append(th[t].log,
                                 Event("before", th[t].ctl.mw.fn, ctxs[th[t].ctl.c].handler.i))

\* The last entry of link fn in the caller's log.
LastBefore(fn) ==
    CHOOSE k \in 1..Len(th[0].log) :
        /\ th[0].log[k].e = "before" /\ th[0].log[k].id = fn
        /\ \A j \in (k + 1)..Len(th[0].log) :
              ~(th[0].log[j].e = "before" /\ th[0].log[j].id = fn)

\* A call that returned the error of a per-call link validated and handled
\* no command and started no branch.
PerCallStopsAll ==
    (/\ Came
     /\ call.result.kind = "link"
     /\ call.result.fn \in Ids(PerCallLinks))
       => /\ \A k \in 1..Len(th[0].log) : th[0].log[k].e \in {"before", "after"}
          /\ \A j \in (LastBefore(call.result.fn) + 1)..Len(th[0].log) :
                th[0].log[j].e = "after"
          /\ \A t \in 1..MaxBatch : th[t] = IdleThread
          /\ wg = 0

\* A DispatchMulti that returned the error of a per-command link: after the
\* link stopped only links around it ran, so the command it stopped and the
\* commands behind it were not handled and those behind it not validated.
PerCommandStopsRest ==
    (/\ Came
     /\ call.kind = "dispatch"
     /\ call.result.kind = "link"
     /\ call.result.fn \in Ids(muxes[1].middlewares[mCmd]))
       => LET k == LastBefore(call.result.fn)
              i == th[0].log[k].cmd
          IN  /\ \A j \in (k + 1)..Len(th[0].log) : th[0].log[j].e = "after"
              /\ \A j \in 1..Len(th[0].log) :
                    /\ th[0].log[j].e = "validate" => th[0].log[j].id <= i
                    /\ th[0].log[j].e = "handler" => th[0].log[j].cmd < i

\* C33: a link that returns without calling next runs nothing inside it and
\* its return value is the result of the pass; a per-call link that does so
\* keeps every command of the batch from being validated and handled and, in
\* QueryAsync, every branch from starting; a per-command link that does so
\* with an error ends the batch.
C33_ShortCircuit ==
    /\ [](PerCallStopsAll /\ PerCommandStopsRest)
    /\ [][\A t \in Threads : StopsThere(t) /\ HandedUp(t)]_vars

\* A batch of two whose first command was handled and whose second was
\* stopped by a per-command link, under a per-call link that had passed.
C33_Witness ==
    /\ Came
    /\ call.kind = "dispatch"
    /\ Len(call.cmds) = 2
    /\ call.result.kind = "link"
    /\ call.result.fn \in Ids(muxes[1].middlewares[mCmd])
    /\ Len(PerCallLinks) = 1
    /\ th[0].log[LastBefore(call.result.fn)].cmd = 2
    /\ \E j \in 1..Len(th[0].log) : th[0].log[j].e = "handler"

(* ------------------- claims about calls through a child ---------------- *)

\* The call in hand was entered with a scope made by Group in the caller's
\* context, every command of it resolved, and a Register on that scope has
\* built its entry points.
ThroughChild ==
    /\ call.status # "none"
    /\ call.bus # 1
    /\ Len(call.keys) > 0
    /\ Len(call.cmds) = Len(call.keys)
    /\ \E x \in handlers : x.mux = call.bus
    /\ BothBuilt(muxes, call.bus)

\* C34: a scope returned by Group can be bound in the caller's context like
\* the root: once a handler is registered in it, a call entered through it
\* gets a BusContext and runs the child's per-call chain without failing.
C34_ChildAsBus ==
    ThroughChild => call.status \in {"running", "returned"}

(* ------------------- claims about context values ----------------------- *)

\* The caller's goroutine is about to run a per-command link or a handler
\* for the command its BusContext holds.
AboutToProcess ==
    /\ call.status = "running"
    /\ th[0].ctl.k = "handle"
    /\ th[0].ctl.mw.t = "link" \/ th[0].ctl.mw = Func("route", 0)
    /\ ctxs[th[0].ctl.c].handler # NilCmd

\* C35: a value a per-command link attached with WithValue while one command
\* of a batch was processed is not visible to the per-command links and the
\* handler of a later command of the batch.
C35_ValuesPerCommand ==
    AboutToProcess =>
        \A p \in ctxs[th[0].ctl.c].ctx.vals : p[2] = ctxs[th[0].ctl.c].handler.i

(* ------------------- claims about validation in a batch ---------------- *)

\* The positions before p at which the loop of DispatchMulti logged e for the
\* j-th command.
Before(p, e, j) ==
    { q \in 1..(p - 1) : LoopLog(th[0].log)[q].e = e /\ LoopLog(th[0].log)[q].cmd = j }

\* C36: in a Dispatch batch the k-th action is validated only after the
\* handlers of the actions before it have run and their dispatch has
\* returned; so when the validation of the k-th fails, the handlers of all
\* earlier commands have run, the loop does nothing after it, and the call
\* returns the validation error.
C36_ValidationInterleaved ==
    (call.kind = "dispatch" /\ Entered)
       => LET x == LoopLog(th[0].log)
          IN  /\ \A p \in 1..Len(x) :
                    x[p].e = "validate"
                       => \A j \in 1..(x[p].id - 1) :
                             /\ Cardinality(Before(p, "handler", j)) = 1
                             /\ Cardinality(Before(p, "before", j))
                                  = Cardinality(Before(p, "after", j))
              /\ \A k \in 1..Len(call.cmds) :
                    (Came /\ Is(call.result, ValidateErr(k)))
                       => /\ Is(call.result, ErrValidationFailed)
                          /\ x[Len(x)] = Event("validate", k, k - 1)
                          /\ \A j \in 1..(k - 1) :
                                Cardinality(Before(Len(x), "handler", j)) = 1

\* The second action of a batch of two was rejected after the first had
\* gone through two command links and its handler, and the call returned.
C36_Witness ==
    /\ Came
    /\ call.kind = "dispatch"
    /\ Len(call.cmds) = 2
    /\ Is(call.result, ValidateErr(2))
    /\ Cardinality(Before(Len(LoopLog(th[0].log)), "handler", 1)) = 1
    /\ Cardinality(Before(Len(LoopLog(th[0].log)), "after", 1)) = 2

(* ------------- claims about the first use of a command chain ----------- *)

\* The chain of the scope that owns the q-th query of the call, as built
\* from the scope's command middleware.
BuiltChainOf(q) ==
    chain(OpQuery, muxes[muxOf(call.cmds[q].h)].middlewares[mCmd], Func("route", 0))

\* A goroutine that is past the check and the build holds the fully built
\* chain of the owner, and a chain that is stored is that chain.
HoldsBuiltChain ==
    call.status = "running" =>
        \A t \in Threads :
            th[t].ctl.k = "dispatch" =>
                /\ th[t].ctl.pc = "go" =>
                      th[t].ctl.hh # NilMw /\ th[t].ctl.hh = BuiltChainOf(th[t].ctl.q)
                /\ muxes[muxOf(call.cmds[th[t].ctl.q].h)].handler[OpQuery]
                      \in {NilMw, BuiltChainOf(th[t].ctl.q)}

\* A branch that ended without an error has entered every command link whose
\* mask admits queries once, and no other.
BranchRanEachLinkOnce ==
    call.kind = "queryAsync" =>
        \A t \in 1..MaxBatch :
            (th[t].ctl.k = "done" /\ th[t].ctl.err = NoErr)
               => \A j \in 1..Len(muxes[1].middlewares[mCmd]) :
                     Count(th[t].log, "before", muxes[1].middlewares[mCmd][j].fn)
                        = IF Admits(muxes[1].middlewares[mCmd][j].op, OpQuery) THEN 1 ELSE 0

\* C37: when several fan-out branches are the first to dispatch queries at a
\* scope, the check and the build of the cached chain are separate lock
\* sections, yet every branch runs a fully built chain with exactly the
\* scope's filtered links: none finds the chain missing, and no link is
\* skipped or applied twice.
C37_ConcurrentFirstUse == HoldsBuiltChain /\ BranchRanEachLinkOnce

\* One branch has found no chain, built it and run it to the end, while the
\* other, which had also found none, is about to build it again.
C37_Witness ==
    /\ call.status = "running"
    /\ \E j \in 1..Len(muxes[1].middlewares[mCmd]) :
          Admits(muxes[1].middlewares[mCmd][j].op, OpQuery)
    /\ \E t, u \in 1..MaxBatch :
          /\ th[t].ctl.k = "done"
          /\ th[t].ctl.err = NoErr
          /\ Len(th[t].log) > 0
          /\ th[u].ctl.k = "dispatch"
          /\ th[u].ctl.pc = "build"

(* ------------------- claims about the end of a fan-out ----------------- *)

\* errs never holds more than one error per branch that has ended, nor more
\* than its capacity.
ErrsFit ==
    call.kind = "queryAsync" =>
        /\ Len(errs) <= errsCap(call.cmds)
        /\ Len(errs) <= Cardinality({t \in 1..MaxBatch : th[t].ctl.k = "done"})

\* C38: QueryAsync cannot deadlock: every handler and link returning, a call
\* that has entered its chain returns in the end, since a branch sends at
\* most one error into a buffer with a slot per branch and signals that it
\* is done on every path before the join goes on.
C38_NoDeadlock ==
    /\ []ErrsFit
    /\ (call.kind = "queryAsync" /\ call.status = "running") ~> (call.status = "returned")

\* A fan-out of two whose branches both failed has returned both errors
\* joined.
C38_Witness ==
    /\ Came
    /\ call.kind = "queryAsync"
    /\ Len(call.cmds) = 2
    /\ Len(errs) = 2
    /\ call.result.kind = "join"

(* ------------------- claims about late per-call links ------------------ *)

\* The caller's goroutine has gone through the per-call chain and is about
\* to run the closure of DispatchMulti or Query.
AtTerminal ==
    /\ call.status = "running"
    /\ th[0].ctl.k = "handle"
    /\ th[0].ctl.mw.t = "func"
    /\ th[0].ctl.mw.name \in {"dispatchMulti", "query"}

\* Every link the bus's per-call list of the call's kind holds by now has
\* been entered once on the way to the closure, in the order of the list.
RunsTheCurrentList ==
    AtTerminal =>
        SelectSeq(th[0].log, LAMBDA ev : ev.e = "before")
           = [j \in 1..Len(PerCallLinks) |-> Event("before", PerCallLinks[j].fn, 0)]

\* The links entered around a command of a DispatchMulti (a per-call link is
\* entered before any command, a command link at a command) are those of the
\* chain the root built at its first dispatch, whatever its list holds by now.
CommandChainStays ==
    (call.kind = "dispatch" /\ Entered)
       => \A j \in 1..Len(th[0].log) :
             (th[0].log[j].e = "before" /\ th[0].log[j].cmd >= 1)
                => /\ muxes[1].handler[OpAction] # NilMw
                   /\ \E k \in 1..Len(LinksOf(muxes[1].handler[OpAction])) :
                         LinksOf(muxes[1].handler[OpAction])[k] = th[0].log[j].id

\* C39: per-call chains are not frozen the way per-command chains are: a
\* UseDispatch / UseQuery on the bus after Register and after earlier calls
\* is in the per-call chain of every call that follows, which is composed
\* from the list as it is at the call; only the per-command chain leaves out
\* what is registered late.
C39_PerCallNotFrozen == RunsTheCurrentList /\ CommandChainStays

\* A DispatchMulti after an earlier one: the root's action chain was built
\* without links, a command link and then a per-call link were added, and the
\* call has gone through the late per-call link.
C39_Witness ==
    /\ AtTerminal
    /\ call.kind = "dispatch"
    /\ muxes[1].handler[OpAction] = Func("route", 0)
    /\ FnsOf(muxes[1].middlewares[mCmd]) = <<1>>
    /\ FnsOf(muxes[1].middlewares[mDispatch]) = <<2>>
    /\ Count(th[0].log, "before", 2) = 1

====
